---- MODULE Spec2Model ----
(***************************************************************************)
(* Order lifecycle and inventory consistency engine of the PC-PartMart     *)
(* backend: controllers/order.controller.js (src/unnamed/part_001),        *)
(* controllers/payment.controller.js (src/unnamed/part_003) and the        *)
(* Product / Order schemas (src/unnamed/part_010).                          *)
(*                                                                         *)
(* Spec      : every handler is one atomic step (requests one at a time).  *)
(* SpecRetry : the same with retryPaymentByCloningOrder, without the two  *)
(*             refund handlers.                                            *)
(* SpecConc  : createOrder requests interleave at their awaits, and the    *)
(*             catalogue switches products on and off meanwhile.           *)
(* SpecRR    : adminCompleteReturnOrReplacement calls on REPLACEMENT       *)
(*             requests interleave: the guards on the first read, the      *)
(*             start of the transaction, and its work up to the commit.    *)
(* SpecReturn: adminCompleteReturnOrReplacement calls on RETURN requests:  *)
(*             the first read and its guards, then the transaction.        *)
(* SpecStale:  cancelOrder, cancelItems and adminUpdateStatus requests in   *)
(*             flight together: each loads the order, writes stock and     *)
(*             sold counts at once, and saves its copy at the end.         *)
(* SpecHistory: the handlers of Spec with the entries they push to the      *)
(*             statusHistory of the orders.                                *)
(* SpecPurge:  the RETURN completion followed by the purge of reviews,     *)
(*             which may fail after the commit.                            *)
(* SpecCreate: one createOrder call on any cart, from any stock and any    *)
(*             activity of the products.                                   *)
(* SpecBundle: getAvailableStock and consumeStockOrThrow on any bundle     *)
(*             definition and on SINGLE products, from sampled stocks,     *)
(*             followed by restockForOrderLine.                            *)
(***************************************************************************)
EXTENDS Integers, Sequences, FiniteSets, TLC

\* ---------------------------------------------------------------------
\* Bounds of the model
\* ---------------------------------------------------------------------
MaxOrders == 2   \* orders in the collection
MaxCarts == 1    \* of which placed by createOrder (the others are replacements and retries)
MaxLines == 2    \* lines of a cart
MaxQty == 2      \* units of a cart, and of a cancel / return request line
InitStock == 2   \* stock of every SINGLE product at the start
MaxStock == 2    \* Spec, SpecRetry: steps that raise a stock above it are not followed
MaxReplacements == 2   \* SpecRR: replacement orders in the collection
NumProcs == 2    \* SpecConc: concurrent createOrder requests
MaxHistory == 6  \* SpecHistory: entries of one order's statusHistory
MaxPerBundle == 2   \* SpecBundle: units of a child per bundle
MaxReserve == 4     \* SpecBundle: bundles reserved in one call

\* ---------------------------------------------------------------------
\* Catalog (fields of the Product schema the engine reads but never writes)
\* ---------------------------------------------------------------------
NULL == -1

Products == {"A", "B", "K"}

Catalog ==
  ("A" :> [type |-> "SINGLE", price |-> 3, discountPrice |-> 2, timed |-> NULL,
           bundleItems |-> <<>>]) @@
  ("B" :> [type |-> "SINGLE", price |-> 1, discountPrice |-> NULL, timed |-> NULL,
           bundleItems |-> <<>>]) @@
  ("K" :> [type |-> "BUNDLE", price |-> 6, discountPrice |-> 4, timed |-> 3,
           bundleItems |-> << [product |-> "A", qty |-> 1],
                              [product |-> "B", qty |-> 2] >>])

Singles == {p \in Products : Catalog[p].type # "BUNDLE"}

Statuses == {"PLACED", "CONFIRMED", "SHIPPED", "DELIVERED",
             "CANCELLED", "RETURNED", "REPLACED"}

Terminal == {"CANCELLED", "RETURNED", "REPLACED"}

VARIABLES
  stock,      \* Product.stock
  isActive,   \* Product.isActive
  soldCount,  \* Product.soldCount
  orders,     \* the Order collection, in creation order; an order's id is its index
  soldAdded,  \* history: what each order added to each product's soldCount
  pc,         \* SpecConc: position of each createOrder request
  req,        \* SpecConc: the cart line of each request
  idx,        \* SpecConc: bundle child the request is at (0: none)
  decremented,\* SpecConc: the children already decremented by the request
  net,        \* SpecConc history: net change each request has made to each stock
  rr,         \* SpecRR: the order and the transaction snapshot of each completion call
  probe,      \* SpecBundle: the bundle definition looked at and what was computed for it
  call,       \* SpecStale: per request, the order document it loaded and works on
  history     \* SpecHistory: Order.statusHistory, the status of each entry

vars == <<stock, isActive, soldCount, orders, soldAdded,
          pc, req, idx, decremented, net, rr, probe, call, history>>

engineVars == <<stock, isActive, soldCount, orders, soldAdded>>
concVars == <<pc, req, idx, decremented, net, rr, probe, call, history>>

\* ---------------------------------------------------------------------
\* Pure helpers of order.controller.js
\* ---------------------------------------------------------------------
Min(a, b) == IF a < b THEN a ELSE b
Max(a, b) == IF a > b THEN a ELSE b

RECURSIVE SumSeq(_)
SumSeq(s) == IF s = <<>> THEN 0 ELSE Head(s) + SumSeq(Tail(s))

getFinalUnitPrice(product) ==
  LET price == product.price
      dp == product.discountPrice
      hasDiscount == dp # NULL /\ dp >= 0 /\ dp < price
  IN IF hasDiscount THEN dp ELSE price

\* the price createOrder snapshots: the timed offer when one is running
paidUnit(product) ==
  IF product.timed # NULL THEN product.timed ELSE getFinalUnitPrice(product)

\* product: catalog id; stk, act: the stock / isActive values of the populated read
RECURSIVE bundleMin(_, _, _)
bundleMin(items, stk, act) ==
  IF items = <<>> THEN 1000000
  ELSE LET bi == Head(items)
           q == bi.qty
       IN IF bi.product \notin Products THEN 0
          ELSE IF act[bi.product] = FALSE THEN 0
          ELSE IF Catalog[bi.product].type = "BUNDLE" THEN 0
          ELSE IF q <= 0 THEN 0
          ELSE LET rest == bundleMin(Tail(items), stk, act)
               IN IF rest = 0 THEN 0
                  ELSE Min(Max(0, stk[bi.product]) \div q, rest)

\* variant of bundleStock: only the first child is looked at
bundleStockFirst(items, stk, act) ==
  IF Len(items) < 2 THEN 0 ELSE bundleMin(<<Head(items)>>, stk, act)

\* getAvailableStock of a BUNDLE whose bundleItems are items
bundleStock(items, stk, act) ==
  IF Len(items) < 2 THEN 0 ELSE bundleMin(items, stk, act)

getAvailableStock(p, stk, act) ==
  IF p \notin Products THEN 0
  ELSE IF Catalog[p].type # "BUNDLE" THEN Max(0, stk[p])
  ELSE bundleStock(Catalog[p].bundleItems, stk, act)

\* variant of condDec: the update without the stock filter
condDecUnfiltered(stk, act, c, need) ==
  IF act[c]
    THEN [ok |-> TRUE, stock |-> [stk EXCEPT ![c] = @ - need]]
    ELSE [ok |-> FALSE, stock |-> stk]

\* Product.findOneAndUpdate({_id, stock >= need, isActive}, {$inc: {stock: -need}})
condDec(stk, act, c, need) ==
  IF stk[c] >= need /\ act[c]
    THEN [ok |-> TRUE, stock |-> [stk EXCEPT ![c] = @ - need]]
    ELSE [ok |-> FALSE, stock |-> stk]

\* variant of rollbackOps: the last deducted child is not added back
RECURSIVE rollbackOpsShort(_, _)
rollbackOpsShort(stk, dec) ==
  IF Len(dec) <= 1 THEN stk
  ELSE rollbackOpsShort([stk EXCEPT ![Head(dec).childId] = @ + Head(dec).need], Tail(dec))

\* the rollback bulkWrite of consumeStockOrThrow: add back what was deducted
RECURSIVE rollbackOps(_, _)
rollbackOps(stk, dec) ==
  IF dec = <<>> THEN stk
  ELSE rollbackOps([stk EXCEPT ![Head(dec).childId] = @ + Head(dec).need], Tail(dec))

\* the child loop of consumeStockOrThrow, from child i on
RECURSIVE consumeChildren(_, _, _, _, _, _)
consumeChildren(items, i, qty, stk, act, dec) ==
  IF i > Len(items) THEN [ok |-> TRUE, stock |-> stk]
  ELSE LET child == items[i].product
           need == items[i].qty * qty
           r == condDec(stk, act, child, need)
       IN IF ~r.ok THEN [ok |-> FALSE, stock |-> rollbackOps(stk, dec)]
          ELSE consumeChildren(items, i + 1, qty, r.stock, act,
                               Append(dec, [childId |-> child, need |-> need]))

\* the BUNDLE part of consumeStockOrThrow for a bundle whose bundleItems are items
consumeBundle(items, qty, stk, act) ==
  IF Len(items) < 2 THEN [ok |-> FALSE, stock |-> stk]
  ELSE IF bundleStock(items, stk, act) < qty THEN [ok |-> FALSE, stock |-> stk]
  ELSE consumeChildren(items, 1, qty, stk, act, <<>>)

\* consumeStockOrThrow(product, qty) run without interruption: ok = FALSE is a throw
consumeStockOrThrow(p, qty, stk, act) ==
  IF qty <= 0 THEN [ok |-> FALSE, stock |-> stk]
  ELSE IF Catalog[p].type # "BUNDLE" THEN condDec(stk, act, p, qty)
  ELSE consumeBundle(Catalog[p].bundleItems, qty, stk, act)

\* variant of restockForOrderLine: a bundle gives each child one unit per
\* bundle, whatever its quantity per bundle
restockForOrderLineFlat(stk, p, qty) ==
  IF qty <= 0 \/ p \notin Products THEN stk
  ELSE IF Catalog[p].type # "BUNDLE" THEN [stk EXCEPT ![p] = @ + qty]
  ELSE [c \in Products |->
          IF \E k \in 1..Len(Catalog[p].bundleItems) : Catalog[p].bundleItems[k].product = c
            THEN stk[c] + qty ELSE stk[c]]

\* variant of restockChildren: only the first child is restocked
restockChildrenFirst(stk, items, qty) ==
  IF items = <<>> \/ Head(items).product \notin Products \/ Head(items).qty <= 0 THEN stk
  ELSE [stk EXCEPT ![Head(items).product] = @ + Head(items).qty * qty]

RECURSIVE restockChildren(_, _, _)
restockChildren(stk, items, qty) ==
  IF items = <<>> THEN stk
  ELSE LET bi == Head(items)
       IN IF bi.product \notin Products \/ bi.qty <= 0
            THEN restockChildren(stk, Tail(items), qty)
            ELSE restockChildren([stk EXCEPT ![bi.product] = @ + bi.qty * qty],
                                 Tail(items), qty)

restockForOrderLine(stk, p, qty) ==
  IF qty <= 0 THEN stk
  ELSE IF p \notin Products THEN stk
  ELSE IF Catalog[p].type # "BUNDLE" THEN [stk EXCEPT ![p] = @ + qty]
  ELSE restockChildren(stk, Catalog[p].bundleItems, qty)

calcTotal(items) ==
  SumSeq([i \in 1..Len(items) |-> items[i].priceSnapshot * items[i].qty])

getEligibleQtyForRR(it) ==
  it.qty - it.cancelledQty - it.returnedQty - it.replacedQty

\* variant of recomputeTotalAfterCancel: the total of the quantities ordered
recomputeTotalStale(items) == calcTotal(items)

recomputeTotalAfterCancel(items) ==
  SumSeq([i \in 1..Len(items) |->
            Max(items[i].qty - items[i].cancelledQty, 0) * items[i].priceSnapshot])

\* variant of isFullyCancelled: some line is cancelled in full
isFullyCancelledAny(order_items) ==
  \E i \in 1..Len(order_items) : order_items[i].cancelledQty >= order_items[i].qty

isFullyCancelled(items) == \A i \in 1..Len(items) : items[i].cancelledQty >= items[i].qty
\* variant of isFullyReturned: some line is returned in full
isFullyReturnedAny(order_items) ==
  \E i \in 1..Len(order_items) : order_items[i].returnedQty >= order_items[i].qty

isFullyReturned(items) == \A i \in 1..Len(items) : items[i].returnedQty >= items[i].qty
isFullyReplaced(items) == \A i \in 1..Len(items) : items[i].replacedQty >= items[i].qty


\* ---------------------------------------------------------------------
\* Documents
\* ---------------------------------------------------------------------
NoRequest == [type |-> "NONE", status |-> "NONE", items |-> [p \in Products |-> 0]]

\* an order item as the Order schema stores it (counters default to 0)
OrderItem(productId, priceSnapshot, qty) ==
  [productId |-> productId, priceSnapshot |-> priceSnapshot, qty |-> qty,
   cancelledQty |-> 0, returnedQty |-> 0, replacedQty |-> 0]

\* variant of OrderDoc: the document carries no link to a parent order
OrderDocOrphan(items, totalAmount, method, payStatus, status, isReplacement, parentOrderId) ==
  [items |-> items, totalAmount |-> totalAmount,
   payment |-> [method |-> method, status |-> payStatus],
   status |-> status,
   isReplacement |-> FALSE, parentOrderId |-> 0,
   replacementOrderId |-> 0,
   returnRequest |-> NoRequest,
   salesCounted |-> FALSE,
   salesRolledBack |-> [p \in Products |-> 0],
   razorpayOrderId |-> FALSE]

\* an order document with the schema defaults; parentOrderId 0 is null
OrderDoc(items, totalAmount, method, payStatus, status, isReplacement, parentOrderId) ==
  [items |-> items, totalAmount |-> totalAmount,
   payment |-> [method |-> method, status |-> payStatus],
   status |-> status,
   isReplacement |-> isReplacement, parentOrderId |-> parentOrderId,
   replacementOrderId |-> 0,
   returnRequest |-> NoRequest,
   salesCounted |-> FALSE,
   salesRolledBack |-> [p \in Products |-> 0],
   razorpayOrderId |-> FALSE]

OrderIds == 1..Len(orders)

\* ---------------------------------------------------------------------
\* The "restock remaining qty + set cancelledQty" loop shared by
\* adminUpdateStatus, cancelOrder, verifyRazorpayPayment and cancelRazorpayAttempt
\* ---------------------------------------------------------------------
cancelRemaining(items) ==
  [i \in 1..Len(items) |->
     LET remaining == items[i].qty - items[i].cancelledQty
     IN IF remaining > 0
          THEN [items[i] EXCEPT !.cancelledQty = @ + remaining]
          ELSE items[i]]

RECURSIVE restockRemaining(_, _)
restockRemaining(stk, items) ==
  IF items = <<>> THEN stk
  ELSE LET it == Head(items)
           remaining == it.qty - it.cancelledQty
       IN restockRemaining(IF remaining > 0
                             THEN restockForOrderLine(stk, it.productId, remaining)
                             ELSE stk,
                           Tail(items))

\* variant of refundParent: the parent order is left as it is
refundParentNever(ords, o) == ords

\* "Refund ORIGINAL order if paid": the orders after the parent of order o was looked at
refundParent(ords, o) ==
  LET par == ords[o].parentOrderId
  IN IF par # 0 /\ par \in DOMAIN ords /\ ords[par].payment.status = "PAID"
       THEN [ords EXCEPT ![par].payment.status = "REFUNDED"]
       ELSE ords

\* ---------------------------------------------------------------------
\* createOrder (one transaction)
\* ---------------------------------------------------------------------
Methods == {"COD", "RAZORPAY", "UPI", "REPLACEMENT"}

CartItems == [productId : Products, qty : 0..MaxQty]
\* carts of at most MaxQty units; a cart of several lines lists distinct SINGLE
\* products in catalogue order
Carts == {c \in UNION {[1..n -> CartItems] : n \in 1..MaxLines} :
            /\ SumSeq([i \in 1..Len(c) |-> c[i].qty]) <= MaxQty
            /\ \A i, j \in 1..Len(c) : i < j =>
                  /\ c[i].qty > 0 /\ c[j].qty > 0
                  /\ c[i].productId = "A" /\ c[j].productId = "B"}

\* the item loop of createOrder from cart position i on; ok = FALSE is a throw
RECURSIVE createLines(_, _, _, _, _)
createLines(cart, i, stk, act, snapshotItems) ==
  IF i > Len(cart) THEN [ok |-> TRUE, stock |-> stk, items |-> snapshotItems]
  ELSE LET it == cart[i]
           qty == it.qty
       IN IF qty <= 0 THEN [ok |-> FALSE, stock |-> stk, items |-> <<>>]
          ELSE IF it.productId \notin Products
            THEN [ok |-> FALSE, stock |-> stk, items |-> <<>>]
          ELSE IF ~act[it.productId] THEN [ok |-> FALSE, stock |-> stk, items |-> <<>>]
          ELSE LET r == consumeStockOrThrow(it.productId, qty, stk, act)
               IN IF ~r.ok THEN [ok |-> FALSE, stock |-> stk, items |-> <<>>]
                  ELSE createLines(cart, i + 1, r.stock, act,
                         Append(snapshotItems,
                                OrderItem(it.productId, paidUnit(Catalog[it.productId]), qty)))

createOrderStatus(method) == IF method = "REPLACEMENT" THEN "PAID" ELSE "PENDING"

normalizedMethod(method) == IF method \in {"UPI", "CARD"} THEN "RAZORPAY" ELSE method

\* variant of createOrder: a failed call keeps what it had deducted
createOrderLeaky(cart, paymentMethod) ==
  /\ Len(orders) < MaxCarts
  /\ LET r == createLines(cart, 1, stock, isActive, <<>>)
     IN IF r.ok
          THEN /\ stock' = r.stock
               /\ orders' = Append(orders,
                     OrderDoc(r.items, calcTotal(r.items), normalizedMethod(paymentMethod),
                              createOrderStatus(paymentMethod), "PLACED", FALSE, 0))
          ELSE /\ stock' = r.stock
               /\ UNCHANGED orders
  /\ UNCHANGED <<isActive, soldCount, soldAdded>>

createOrder(cart, paymentMethod) ==
  /\ Len(orders) < MaxCarts
  /\ LET r == createLines(cart, 1, stock, isActive, <<>>)
     IN IF r.ok
          THEN /\ stock' = r.stock
               /\ orders' = Append(orders,
                     OrderDoc(r.items, calcTotal(r.items), normalizedMethod(paymentMethod),
                              createOrderStatus(paymentMethod), "PLACED", FALSE, 0))
          ELSE /\ UNCHANGED <<stock, orders>>
  /\ UNCHANGED <<isActive, soldCount, soldAdded>>

\* ---------------------------------------------------------------------
\* adminUpdateStatus (setOrderStatus)
\* ---------------------------------------------------------------------
allowed == {"PLACED", "CONFIRMED", "SHIPPED", "DELIVERED", "CANCELLED"}

activeQty(it) == it.qty - it.cancelledQty - it.returnedQty - it.replacedQty

\* variant of soldInc: the ordered quantity of every line
soldIncOrdered(items, p) ==
  SumSeq([i \in 1..Len(items) |-> IF items[i].productId = p THEN items[i].qty ELSE 0])

\* what incSoldCountOnceOnPaidDelivered adds to soldCount[p] for these items
RECURSIVE soldInc(_, _)
soldInc(items, p) ==
  IF items = <<>> THEN 0
  ELSE (IF Head(items).productId = p /\ activeQty(Head(items)) > 0
          THEN activeQty(Head(items)) ELSE 0) + soldInc(Tail(items), p)

\* variant of countsSale: without the salesCounted guard
countsSaleAgain(order) ==
  /\ order.status = "DELIVERED"
  /\ order.payment.status = "PAID"

\* TRUE when incSoldCountOnceOnPaidDelivered counts the order (it returns true)
countsSale(order) ==
  /\ ~order.salesCounted
  /\ order.status = "DELIVERED"
  /\ order.payment.status = "PAID"

\* the branch "REPLACEMENT ORDER CANCEL -> REFUND ORIGINAL"
cancelReplacementByAdmin(o) ==
  LET order == orders[o]
      items2 == cancelRemaining(order.items)
      saved == [order EXCEPT !.status = "CANCELLED",
                             !.items = items2,
                             !.totalAmount = recomputeTotalAfterCancel(items2),
                             !.payment.status = "FAILED"]
  IN /\ stock' = restockRemaining(stock, order.items)
     /\ orders' = refundParent([orders EXCEPT ![o] = saved], o)
     /\ UNCHANGED <<soldCount, soldAdded>>

\* the part of adminUpdateStatus after its guards
applyStatus(o, status) ==
  LET order == orders[o]
      prevStatus == order.status
      cancels == status = "CANCELLED" /\ prevStatus # "CANCELLED" /\ ~order.isReplacement
      items2 == IF cancels THEN cancelRemaining(order.items) ELSE order.items
      total2 == IF cancels THEN recomputeTotalAfterCancel(items2) ELSE order.totalAmount
      pay2 == IF order.payment.method = "COD" /\ status = "DELIVERED" THEN "PAID"
              ELSE IF order.payment.method = "COD" /\ status = "CANCELLED" THEN "FAILED"
              ELSE order.payment.status
      moved == [order EXCEPT !.status = status, !.items = items2,
                             !.totalAmount = total2, !.payment.status = pay2]
      counts == status = "DELIVERED" /\ pay2 = "PAID" /\ countsSale(moved)
      saved == IF counts THEN [moved EXCEPT !.salesCounted = TRUE] ELSE moved
  IN /\ stock' = (IF cancels THEN restockRemaining(stock, order.items) ELSE stock)
     /\ soldCount' = (IF counts
                        THEN [p \in Products |-> soldCount[p] + soldInc(moved.items, p)]
                        ELSE soldCount)
     /\ soldAdded' = (IF counts
                        THEN [soldAdded EXCEPT ![o] =
                                [p \in Products |-> soldInc(moved.items, p)]]
                        ELSE soldAdded)
     /\ orders' = [orders EXCEPT ![o] = saved]

\* variant of adminUpdateStatusRejects: without the guard on DELIVERED orders
adminUpdateStatusRejectsLate(order, status) ==
  \/ status \notin allowed
  \/ /\ order.isReplacement /\ status = "CANCELLED"
     /\ order.status \in {"SHIPPED", "DELIVERED", "CANCELLED"}
  \/ /\ ~(order.isReplacement /\ status = "CANCELLED")
     /\ \/ order.status \in {"RETURNED", "REPLACED"}
        \/ status \in {"RETURNED", "REPLACED"}
        \/ status = "CANCELLED" /\ order.status \in {"SHIPPED", "DELIVERED"}
        \/ order.status = "CANCELLED" /\ status # "CANCELLED"

adminUpdateStatusRejects(order, status) ==
  \/ status \notin allowed
  \/ order.status = "DELIVERED" /\ status \in {"PLACED", "CONFIRMED", "SHIPPED", "CANCELLED"}
  \/ /\ order.isReplacement /\ status = "CANCELLED"
     /\ order.status \in {"SHIPPED", "DELIVERED", "CANCELLED"}
  \/ /\ ~(order.isReplacement /\ status = "CANCELLED")
     /\ \/ order.status \in {"RETURNED", "REPLACED"}
        \/ status \in {"RETURNED", "REPLACED"}
        \/ status = "CANCELLED" /\ order.status \in {"SHIPPED", "DELIVERED"}
        \/ order.status = "CANCELLED" /\ status # "CANCELLED"

adminUpdateStatus(o, status) ==
  /\ o \in OrderIds
  /\ IF adminUpdateStatusRejects(orders[o], status)
       THEN /\ UNCHANGED <<stock, soldCount, soldAdded, orders>>
       ELSE /\ IF orders[o].isReplacement /\ status = "CANCELLED"
                 THEN cancelReplacementByAdmin(o)
                 ELSE applyStatus(o, status)
  /\ UNCHANGED isActive

\* ---------------------------------------------------------------------
\* cancelOrder (customer)
\* ---------------------------------------------------------------------
cancelOrderRejects(order) ==
  \/ order.status \in {"CANCELLED", "RETURNED", "REPLACED"}
  \/ order.status \in {"SHIPPED", "DELIVERED"}
  \/ order.status \notin {"PLACED", "CONFIRMED"}

cancelOrderPayment(order) ==
  IF order.isReplacement THEN "FAILED"
  ELSE IF order.payment.method = "RAZORPAY" /\ order.payment.status # "PAID" THEN "FAILED"
  ELSE IF order.payment.method = "COD" THEN "FAILED"
  ELSE order.payment.status

cancelOrder(o) ==
  /\ o \in OrderIds
  /\ LET order == orders[o]
         items2 == cancelRemaining(order.items)
         saved == [order EXCEPT !.status = "CANCELLED",
                                !.items = items2,
                                !.totalAmount = recomputeTotalAfterCancel(items2),
                                !.payment.status = cancelOrderPayment(order)]
     IN IF cancelOrderRejects(order)
          THEN /\ UNCHANGED <<stock, orders>>
          ELSE /\ stock' = restockRemaining(stock, order.items)
               /\ orders' = (IF order.isReplacement
                               THEN refundParent([orders EXCEPT ![o] = saved], o)
                               ELSE [orders EXCEPT ![o] = saved])
  /\ UNCHANGED <<isActive, soldCount, soldAdded>>

\* ---------------------------------------------------------------------
\* cancelItems (customer, partial cancel; no transaction)
\* ---------------------------------------------------------------------
\* request bodies after the handler's normalisation (productId -> qty > 0),
\* of at most MaxQty units in all
ReqMaps == {m \in [Products -> 0..MaxQty] :
              LET t == m["A"] + m["B"] + m["K"] IN t > 0 /\ t <= MaxQty}

\* the "apply cancels" loop from line i on: reqMap entries are deleted as lines use
\* them; each restock is written to the store at once; ok = FALSE is the throw
RECURSIVE applyCancels(_, _, _, _)
applyCancels(items, i, reqMap, stk) ==
  IF i > Len(items) THEN [ok |-> TRUE, items |-> items, reqMap |-> reqMap, stock |-> stk]
  ELSE LET line == items[i]
           cq == reqMap[line.productId]
           available == line.qty - line.cancelledQty
       IN IF cq = 0 THEN applyCancels(items, i + 1, reqMap, stk)
          ELSE IF cq > available
            THEN [ok |-> FALSE, items |-> items, reqMap |-> reqMap, stock |-> stk]
          ELSE applyCancels([items EXCEPT ![i].cancelledQty = @ + cq], i + 1,
                            [reqMap EXCEPT ![line.productId] = 0],
                            restockForOrderLine(stk, line.productId, cq))

cancelItemsPayment(order) ==
  IF order.isReplacement THEN "FAILED"
  ELSE IF order.payment.method = "RAZORPAY" /\ order.payment.status # "PAID" THEN "FAILED"
  ELSE IF order.payment.method = "COD" THEN "FAILED"
  ELSE order.payment.status

cancelItems(o, reqMap) ==
  /\ o \in OrderIds
  /\ LET order == orders[o]
         r == applyCancels(order.items, 1, reqMap, stock)
         full == isFullyCancelled(r.items)
         saved == [order EXCEPT
                     !.items = r.items,
                     !.totalAmount = recomputeTotalAfterCancel(r.items),
                     !.status = IF full THEN "CANCELLED" ELSE @,
                     !.payment.status = IF full THEN cancelItemsPayment(order) ELSE @]
     IN IF order.status \notin {"PLACED", "CONFIRMED"}
          THEN /\ UNCHANGED <<stock, orders>>
          ELSE IF ~r.ok \/ r.reqMap # [p \in Products |-> 0]
            THEN /\ stock' = r.stock
                 /\ UNCHANGED orders
          ELSE /\ stock' = r.stock
               /\ orders' = [orders EXCEPT ![o] = saved]
  /\ UNCHANGED <<isActive, soldCount, soldAdded>>


\* ---------------------------------------------------------------------
\* Return / replacement workflow
\* ---------------------------------------------------------------------
RRTypes == {"RETURN", "REPLACEMENT"}

ProductOrder == <<"A", "B", "K">>

\* items.find(it => it.productId === p): index of the first line of product p, 0 if none
RECURSIVE findLine(_, _, _)
findLine(items, p, i) ==
  IF i > Len(items) THEN 0
  ELSE IF items[i].productId = p THEN i
  ELSE findLine(items, p, i + 1)

\* the "validate eligibility" loop of requestReturnOrReplacement, from line i on:
\* the reqMap left over, or a throw (ok = FALSE)
RECURSIVE validateEligibility(_, _, _)
validateEligibility(items, i, reqMap) ==
  IF i > Len(items) THEN [ok |-> TRUE, reqMap |-> reqMap]
  ELSE LET line == items[i]
           rq == reqMap[line.productId]
       IN IF rq = 0 THEN validateEligibility(items, i + 1, reqMap)
          ELSE IF rq > getEligibleQtyForRR(line) THEN [ok |-> FALSE, reqMap |-> reqMap]
          ELSE validateEligibility(items, i + 1, [reqMap EXCEPT ![line.productId] = 0])

\* variant of requestRejects: without the "prevent multiple" guard
requestRejectsOpen(order, type, reqMap) ==
  \/ order.isReplacement /\ type = "REPLACEMENT"
  \/ order.status # "DELIVERED"
  \/ LET v == validateEligibility(order.items, 1, reqMap)
     IN ~v.ok \/ v.reqMap # [p \in Products |-> 0]

\* variant of requestRejects: replacement orders may ask for a replacement
requestRejectsReplaceable(order, type, reqMap) ==
  \/ order.status # "DELIVERED"
  \/ order.returnRequest.status # "NONE"
  \/ LET v == validateEligibility(order.items, 1, reqMap)
     IN ~v.ok \/ v.reqMap # [p \in Products |-> 0]

\* variant of requestRejects: a new request is accepted once the previous one
\* was decided or completed
requestRejectsPending(order, type, reqMap) ==
  \/ ~(\E i \in 1..Len(order.items) : order.items[i].qty - order.items[i].cancelledQty > 0)
  \/ order.status = "CANCELLED"
  \/ order.isReplacement /\ type = "REPLACEMENT"
  \/ order.status # "DELIVERED"
  \/ order.returnRequest.status \in {"REQUESTED", "APPROVED"}
  \/ LET v == validateEligibility(order.items, 1, reqMap)
     IN ~v.ok \/ v.reqMap # [p \in Products |-> 0]

requestRejects(order, type, reqMap) ==
  \/ ~(\E i \in 1..Len(order.items) : order.items[i].qty - order.items[i].cancelledQty > 0)
  \/ order.status = "CANCELLED"
  \/ order.isReplacement /\ type = "REPLACEMENT"
  \/ order.status # "DELIVERED"
  \/ order.returnRequest.status # "NONE"
  \/ LET v == validateEligibility(order.items, 1, reqMap)
     IN ~v.ok \/ v.reqMap # [p \in Products |-> 0]

requestReturnOrReplacement(o, type, reqMap) ==
  /\ o \in OrderIds
  /\ IF requestRejects(orders[o], type, reqMap)
       THEN /\ UNCHANGED orders
       ELSE /\ orders' = [orders EXCEPT ![o].returnRequest =
                            [type |-> type, status |-> "REQUESTED", items |-> reqMap]]
  /\ UNCHANGED <<stock, isActive, soldCount, soldAdded>>

\* variant of decideRejects: without the "No pending request" guard
decideRejectsAny(order) ==
  \/ order.status = "CANCELLED"
  \/ order.status # "DELIVERED"

decideRejects(order) ==
  \/ order.status = "CANCELLED"
  \/ order.isReplacement /\ order.returnRequest.type = "REPLACEMENT"
  \/ order.status # "DELIVERED"
  \/ order.returnRequest.status # "REQUESTED"

adminDecideReturnOrReplacement(o, action) ==
  /\ o \in OrderIds
  /\ IF decideRejects(orders[o])
       THEN /\ UNCHANGED orders
       ELSE /\ orders' = [orders EXCEPT ![o].returnRequest.status =
                            IF action = "APPROVE" THEN "APPROVED" ELSE "REJECTED"]
  /\ UNCHANGED <<stock, isActive, soldCount, soldAdded>>

cancelRequestRejects(order) ==
  \/ order.status = "CANCELLED"
  \/ order.status \in {"RETURNED", "REPLACED"}
  \/ order.returnRequest.status = "NONE"
  \/ order.returnRequest.status # "REQUESTED"
  \/ order.status # "DELIVERED"

cancelReturnOrReplacementRequest(o) ==
  /\ o \in OrderIds
  /\ IF cancelRequestRejects(orders[o])
       THEN /\ UNCHANGED orders
       ELSE /\ orders' = [orders EXCEPT ![o].returnRequest = NoRequest]
  /\ UNCHANGED <<stock, isActive, soldCount, soldAdded>>

completeRejects(order) ==
  \/ order.isReplacement /\ order.returnRequest.type = "REPLACEMENT"
  \/ order.status \in {"RETURNED", "REPLACED"}
  \/ order.returnRequest.status # "APPROVED"
  \/ order.status # "DELIVERED"
  \/ order.returnRequest.items = [p \in Products |-> 0]

\* variant of canRollback: without the salesCounted guard
canRollbackUncounted(salesCounted, returnedQty, done) == Max(0, returnedQty - done)

\* the rollback quantity the RETURN loop pushes for a line (0: nothing pushed)
canRollback(salesCounted, returnedQty, done) ==
  IF salesCounted THEN Max(0, returnedQty - done) ELSE 0

\* the loop over rrItemsFresh of the RETURN branch, from the k-th requested product on.
\* rb[p]: the quantity pushed to rollbackLines for p. ok = FALSE is a throw.
RECURSIVE returnLoop(_, _, _, _, _)
returnLoop(order, k, items, stk, rb) ==
  IF k > Len(ProductOrder) THEN [ok |-> TRUE, items |-> items, stock |-> stk, rb |-> rb]
  ELSE LET p == ProductOrder[k]
           qty == order.returnRequest.items[p]
           i == findLine(items, p, 1)
       IN IF qty <= 0 THEN returnLoop(order, k + 1, items, stk, rb)
          ELSE IF i = 0 THEN [ok |-> FALSE, items |-> items, stock |-> stk, rb |-> rb]
          ELSE IF qty > getEligibleQtyForRR(items[i])
            THEN [ok |-> FALSE, items |-> items, stock |-> stk, rb |-> rb]
          ELSE LET returned == items[i].returnedQty + qty
               IN returnLoop(order, k + 1,
                             [items EXCEPT ![i].returnedQty = returned],
                             restockForOrderLine(stk, p, qty),
                             [rb EXCEPT ![p] = canRollback(order.salesCounted, returned,
                                                           order.salesRolledBack[p])])

\* variant of decSoldCount: nothing is taken back
decSoldCountNone(sold, rb) == sold

\* decSoldCount: soldCount = max(0, soldCount - qty) for every rollback line
decSoldCount(sold, rb) ==
  [p \in Products |-> IF rb[p] > 0 THEN Max(0, sold[p] - rb[p]) ELSE sold[p]]

completeReturn(o) ==
  LET order == orders[o]
      r == returnLoop(order, 1, order.items, stock, [p \in Products |-> 0])
      full == isFullyReturned(r.items)
      saved == [order EXCEPT
                  !.items = r.items,
                  !.returnRequest.status = "COMPLETED",
                  !.status = IF full THEN "RETURNED" ELSE @,
                  !.payment.status =
                     IF full /\ ~order.isReplacement /\ @ = "PAID" THEN "REFUNDED" ELSE @,
                  !.salesRolledBack = [p \in Products |-> @[p] + r.rb[p]]]
      ords2 == [orders EXCEPT ![o] = saved]
  IN IF ~r.ok
       THEN /\ UNCHANGED <<stock, soldCount, orders>>
       ELSE /\ stock' = r.stock
            /\ soldCount' = decSoldCount(soldCount, r.rb)
            /\ orders' = (IF order.isReplacement /\ order.parentOrderId # 0 /\ full
                            THEN refundParent(ords2, o) ELSE ords2)
\* the first loop of the REPLACEMENT branch: validates every requested line and
\* collects repLines (as product ids, in request order); ok = FALSE is a throw
RECURSIVE replacementLines(_, _, _, _, _)
replacementLines(order, k, stk, act, repLines) ==
  IF k > Len(ProductOrder) THEN [ok |-> repLines # <<>>, repLines |-> repLines]
  ELSE LET p == ProductOrder[k]
           qty == order.returnRequest.items[p]
           i == findLine(order.items, p, 1)
       IN IF qty <= 0 THEN replacementLines(order, k + 1, stk, act, repLines)
          ELSE IF i = 0 THEN [ok |-> FALSE, repLines |-> repLines]
          ELSE IF qty > getEligibleQtyForRR(order.items[i])
            THEN [ok |-> FALSE, repLines |-> repLines]
          ELSE IF ~act[p] THEN [ok |-> FALSE, repLines |-> repLines]
          ELSE IF getAvailableStock(p, stk, act) < qty
            THEN [ok |-> FALSE, repLines |-> repLines]
          ELSE replacementLines(order, k + 1, stk, act,
                                Append(repLines, [productId |-> p, qty |-> qty]))

\* variant of consumeAll: only the first replacement line is deducted
consumeAllFirst(lines, stk, act) ==
  IF lines = <<>> THEN [ok |-> TRUE, stock |-> stk]
  ELSE LET r == consumeStockOrThrow(Head(lines).productId, Head(lines).qty, stk, act)
       IN [ok |-> r.ok, stock |-> IF r.ok THEN r.stock ELSE stk]

\* "deduct stock safely inside transaction"
RECURSIVE consumeAll(_, _, _)
consumeAll(lines, stk, act) ==
  IF lines = <<>> THEN [ok |-> TRUE, stock |-> stk]
  ELSE LET r == consumeStockOrThrow(Head(lines).productId, Head(lines).qty, stk, act)
       IN IF ~r.ok THEN [ok |-> FALSE, stock |-> stk]
          ELSE consumeAll(Tail(lines), r.stock, act)

\* "update original order": replacedQty of the first line of each replaced product
RECURSIVE markReplaced(_, _)
markReplaced(items, repLines) ==
  IF repLines = <<>> THEN items
  ELSE LET i == findLine(items, Head(repLines).productId, 1)
       IN markReplaced(IF i # 0
                         THEN [items EXCEPT ![i].replacedQty = @ + Head(repLines).qty]
                         ELSE items,
                       Tail(repLines))

\* variant of alreadyReplaced: the duplicate check never fires
alreadyReplacedNever(freshOrder) == FALSE

\* "prevent duplicate replacement orders"
alreadyReplaced(freshOrder) == freshOrder.replacementOrderId # 0

completeReplacement(o) ==
  LET order == orders[o]
      v == replacementLines(order, 1, stock, isActive, <<>>)
      c == consumeAll(v.repLines, stock, isActive)
      newId == Len(orders) + 1
      replacementOrder ==
        OrderDoc([i \in 1..Len(v.repLines) |->
                    OrderItem(v.repLines[i].productId, 0, v.repLines[i].qty)],
                 0, "REPLACEMENT", "PAID", "CONFIRMED", TRUE, o)
      items2 == markReplaced(order.items, v.repLines)
      saved == [order EXCEPT
                  !.items = items2,
                  !.replacementOrderId = newId,
                  !.returnRequest.status = "COMPLETED",
                  !.status = IF isFullyReplaced(items2) THEN "REPLACED" ELSE @]
  IN IF alreadyReplaced(order) \/ ~v.ok \/ ~c.ok
       THEN /\ UNCHANGED <<stock, soldCount, orders>>
       ELSE /\ Len(orders) < MaxOrders
            /\ stock' = c.stock
            /\ orders' = Append([orders EXCEPT ![o] = saved], replacementOrder)
            /\ UNCHANGED soldCount
adminCompleteReturnOrReplacement(o) ==
  /\ o \in OrderIds
  /\ IF completeRejects(orders[o])
       THEN /\ UNCHANGED <<stock, soldCount, orders>>
       ELSE IF orders[o].returnRequest.type = "RETURN" THEN completeReturn(o)
       ELSE completeReplacement(o)
  /\ UNCHANGED <<isActive, soldAdded>>


\* ---------------------------------------------------------------------
\* adminRefundOrder (manual refund)
\* ---------------------------------------------------------------------
adminRefundOrder(o) ==
  /\ o \in OrderIds
  /\ LET order == orders[o]
     IN IF \/ order.status \notin {"CANCELLED", "RETURNED"}
           \/ order.payment.status = "REFUNDED"
           \/ order.payment.status # "PAID"
          THEN /\ UNCHANGED orders
          ELSE /\ orders' = [orders EXCEPT ![o].payment.status = "REFUNDED"]
  /\ UNCHANGED <<stock, isActive, soldCount, soldAdded>>

\* ---------------------------------------------------------------------
\* payment.controller.js
\* ---------------------------------------------------------------------
createRazorpayOrder(o) ==
  /\ o \in OrderIds
  /\ LET order == orders[o]
     IN IF \/ order.status = "CANCELLED"
           \/ order.isReplacement
           \/ order.payment.status = "PAID"
           \/ order.totalAmount <= 0
          THEN /\ UNCHANGED orders
          ELSE IF order.razorpayOrderId /\ order.payment.status = "PENDING"
            THEN /\ UNCHANGED orders
          ELSE /\ orders' = [orders EXCEPT ![o].payment.method = "RAZORPAY",
                                           ![o].payment.status = "PENDING",
                                           ![o].razorpayOrderId = TRUE]
  /\ UNCHANGED <<stock, isActive, soldCount, soldAdded>>

\* the signature-mismatch transaction of verifyRazorpayPayment
paymentFailed(o) ==
  LET order == orders[o]
      items2 == cancelRemaining(order.items)
      saved == [order EXCEPT
                  !.payment.status = "FAILED",
                  !.status = IF @ \notin {"CANCELLED", "RETURNED", "REPLACED"}
                               THEN "CANCELLED" ELSE @,
                  !.items = items2,
                  !.totalAmount = recomputeTotalAfterCancel(items2)]
  IN /\ stock' = restockRemaining(stock, order.items)
     /\ orders' = [orders EXCEPT ![o] = saved]

\* variant of verifyRazorpayPayment: without the guard on CANCELLED orders
verifyRazorpayPaymentLate(o, sameId, sigOk) ==
  /\ o \in OrderIds
  /\ sigOk => orders[o].razorpayOrderId /\ sameId
  /\ LET order == orders[o]
     IN IF order.payment.status = "PAID"
          THEN /\ UNCHANGED <<stock, orders>>
          ELSE IF ~sameId
            THEN /\ UNCHANGED <<stock, orders>>
          ELSE IF ~sigOk
            THEN /\ paymentFailed(o)
          ELSE /\ orders' = [orders EXCEPT
                               ![o].payment.status = "PAID",
                               ![o].razorpayOrderId = TRUE,
                               ![o].status = IF @ = "PLACED" THEN "CONFIRMED" ELSE @]
               /\ UNCHANGED stock
  /\ UNCHANGED <<isActive, soldCount, soldAdded>>

\* sameId: the request's razorpay_order_id equals the stored razorpay.orderId
\* sigOk: the request's signature is the HMAC of the order and payment ids; the
\*        payment provider signs only the ids of orders it has issued
verifyRazorpayPayment(o, sameId, sigOk) ==
  /\ o \in OrderIds
  /\ sigOk => orders[o].razorpayOrderId /\ sameId
  /\ LET order == orders[o]
     IN IF order.status = "CANCELLED"
          THEN /\ UNCHANGED <<stock, orders>>
          ELSE IF order.payment.status = "PAID"
            THEN /\ UNCHANGED <<stock, orders>>
          ELSE IF ~sameId
            THEN /\ UNCHANGED <<stock, orders>>
          ELSE IF ~sigOk
            THEN /\ paymentFailed(o)
          ELSE /\ orders' = [orders EXCEPT
                               ![o].payment.status = "PAID",
                               ![o].razorpayOrderId = TRUE,
                               ![o].status = IF @ = "PLACED" THEN "CONFIRMED" ELSE @]
               /\ UNCHANGED stock
  /\ UNCHANGED <<isActive, soldCount, soldAdded>>

cancelRazorpayAttempt(o) ==
  /\ o \in OrderIds
  /\ LET order == orders[o]
         items2 == cancelRemaining(order.items)
         saved == [order EXCEPT
                     !.payment.method = "RAZORPAY",
                     !.payment.status = "FAILED",
                     !.status = "CANCELLED",
                     !.items = items2,
                     !.totalAmount = recomputeTotalAfterCancel(items2),
                     !.razorpayOrderId = FALSE]
     IN IF order.payment.status = "PAID"
          THEN /\ UNCHANGED <<stock, orders>>
          ELSE /\ stock' = restockRemaining(stock, order.items)
               /\ orders' = [orders EXCEPT ![o] = saved]
  /\ UNCHANGED <<isActive, soldCount, soldAdded>>

\* the reservation loop of retryPaymentByCloningOrder; ok = FALSE is a throw
RECURSIVE retryReserve(_, _, _)
retryReserve(items, stk, act) ==
  IF items = <<>> THEN [ok |-> TRUE, stock |-> stk]
  ELSE LET it == Head(items)
       IN IF it.qty <= 0 THEN retryReserve(Tail(items), stk, act)
          ELSE IF it.productId \notin Products \/ act[it.productId] = FALSE
            THEN [ok |-> FALSE, stock |-> stk]
          ELSE LET r == consumeStockOrThrow(it.productId, it.qty, stk, act)
               IN IF ~r.ok THEN [ok |-> FALSE, stock |-> stk]
                  ELSE retryReserve(Tail(items), r.stock, act)

retryPaymentByCloningOrder(o) ==
  /\ o \in OrderIds
  /\ LET oldOrder == orders[o]
         totalAmount == calcTotal(oldOrder.items)
         r == retryReserve(oldOrder.items, stock, isActive)
         fresh == OrderDoc([i \in 1..Len(oldOrder.items) |->
                              OrderItem(oldOrder.items[i].productId,
                                        oldOrder.items[i].priceSnapshot,
                                        oldOrder.items[i].qty)],
                           totalAmount, "RAZORPAY", "PENDING", "PLACED", FALSE, 0)
     IN IF \/ oldOrder.payment.status = "PAID"
           \/ oldOrder.status # "CANCELLED"
           \/ oldOrder.payment.status # "FAILED"
           \/ totalAmount <= 0
           \/ ~r.ok
          THEN /\ UNCHANGED <<stock, orders>>
          ELSE /\ Len(orders) < MaxOrders
               /\ stock' = r.stock
               /\ orders' = Append(orders, fresh)
  /\ UNCHANGED <<isActive, soldCount, soldAdded>>

\* amountOk: the refund amount (the given one, else the order total) is positive;
\* a PAID RAZORPAY order always carries the paymentId verification stored
refundRazorpayPayment(o, amountOk) ==
  /\ o \in OrderIds
  /\ amountOk \/ orders[o].totalAmount <= 0
  /\ LET order == orders[o]
     IN IF \/ order.payment.method # "RAZORPAY"
           \/ order.payment.status # "PAID"
           \/ ~amountOk
          THEN /\ UNCHANGED orders
          ELSE /\ orders' = [orders EXCEPT ![o].payment.status = "REFUNDED"]
  /\ UNCHANGED <<stock, isActive, soldCount, soldAdded>>

\* ---------------------------------------------------------------------
\* Catalog management: product update of the isActive flag
\* ---------------------------------------------------------------------
update(p, active) ==
  /\ isActive[p] # active
  /\ isActive' = [isActive EXCEPT ![p] = active]
  /\ UNCHANGED <<stock, soldCount, orders, soldAdded>>

\* ---------------------------------------------------------------------
\* Spec: requests handled one at a time
\* ---------------------------------------------------------------------
Procs == 1..NumProcs

\* no bundle definition looked at
NoProbe == [product |-> "", items |-> <<>>, n |-> 0, available |-> NULL, ok |-> FALSE,
            before |-> <<>>, released |-> FALSE, maxQty |-> NULL]

\* no order has a history
NoHistory == [o \in 1..MaxOrders |-> <<>>]

\* a request that has not loaded an order
NoLoad == [kind |-> "none", o |-> 0, status |-> "NONE",
           reqMap |-> [p \in Products |-> 0],
           loaded |-> <<>>, order |-> <<>>, line |-> 0,
           released |-> [p \in Products |-> 0]]

\* no adminCompleteReturnOrReplacement call in flight
NoCall == [o |-> 0, order |-> <<>>, stock |-> [p \in Products |-> 0]]

Init ==
  /\ stock = [p \in Products |-> IF p \in Singles THEN InitStock ELSE 0]
  /\ isActive = [p \in Products |-> TRUE]
  /\ soldCount = [p \in Products |-> 0]
  /\ orders = <<>>
  /\ soldAdded = [o \in 1..MaxOrders |-> [p \in Products |-> 0]]
  /\ pc = [i \in Procs |-> "idle"]
  /\ req = [i \in Procs |-> [productId |-> "A", qty |-> 0]]
  /\ idx = [i \in Procs |-> 0]
  /\ decremented = [i \in Procs |-> <<>>]
  /\ net = [i \in Procs |-> [p \in Products |-> 0]]
  /\ rr = [i \in Procs |-> NoCall]
  /\ probe = NoProbe
  /\ call = [i \in Procs |-> NoLoad]
  /\ history = NoHistory

\* a request handled on its own: no createOrder request is in flight; restocks
\* that repeat without end are followed up to MaxStock
Sequential ==
  /\ UNCHANGED concVars
  /\ \A p \in Products : stock'[p] <= MaxStock

Next ==
  \/ \E cart \in Carts, m \in Methods : createOrder(cart, m) /\ Sequential
  \/ \E o \in 1..MaxOrders, st \in Statuses : adminUpdateStatus(o, st) /\ Sequential
  \/ \E o \in 1..MaxOrders : cancelOrder(o) /\ Sequential
  \/ \E o \in 1..MaxOrders, rm \in ReqMaps : cancelItems(o, rm) /\ Sequential
  \/ \E o \in 1..MaxOrders, t \in RRTypes, rm \in ReqMaps :
        requestReturnOrReplacement(o, t, rm) /\ Sequential
  \/ \E o \in 1..MaxOrders, a \in {"APPROVE", "REJECT"} :
        adminDecideReturnOrReplacement(o, a) /\ Sequential
  \/ \E o \in 1..MaxOrders : adminCompleteReturnOrReplacement(o) /\ Sequential
  \/ \E o \in 1..MaxOrders : cancelReturnOrReplacementRequest(o) /\ Sequential
  \/ \E o \in 1..MaxOrders : adminRefundOrder(o) /\ Sequential
  \/ \E o \in 1..MaxOrders : createRazorpayOrder(o) /\ Sequential
  \/ \E o \in 1..MaxOrders, same \in BOOLEAN, sig \in BOOLEAN :
        verifyRazorpayPayment(o, same, sig) /\ Sequential
  \/ \E o \in 1..MaxOrders : cancelRazorpayAttempt(o) /\ Sequential
  \/ \E o \in 1..MaxOrders, ok \in BOOLEAN : refundRazorpayPayment(o, ok) /\ Sequential

Spec == Init /\ [][Next]_vars

\* ---------------------------------------------------------------------
\* SpecRetry: purchase, cancellation, return / replacement and payment
\* requests together with the retry of a failed payment; the two refund
\* handlers, which write payment.status only, are left to Spec
\* ---------------------------------------------------------------------
NextRetry ==
  \/ \E cart \in Carts, m \in {"COD", "RAZORPAY"} : createOrder(cart, m) /\ Sequential
  \/ \E o \in 1..MaxOrders, st \in Statuses : adminUpdateStatus(o, st) /\ Sequential
  \/ \E o \in 1..MaxOrders : cancelOrder(o) /\ Sequential
  \/ \E o \in 1..MaxOrders, rm \in ReqMaps : cancelItems(o, rm) /\ Sequential
  \/ \E o \in 1..MaxOrders, t \in RRTypes, rm \in ReqMaps :
        requestReturnOrReplacement(o, t, rm) /\ Sequential
  \/ \E o \in 1..MaxOrders, a \in {"APPROVE", "REJECT"} :
        adminDecideReturnOrReplacement(o, a) /\ Sequential
  \/ \E o \in 1..MaxOrders : adminCompleteReturnOrReplacement(o) /\ Sequential
  \/ \E o \in 1..MaxOrders : createRazorpayOrder(o) /\ Sequential
  \/ \E o \in 1..MaxOrders, same \in BOOLEAN, sig \in BOOLEAN :
        verifyRazorpayPayment(o, same, sig) /\ Sequential
  \/ \E o \in 1..MaxOrders : cancelRazorpayAttempt(o) /\ Sequential
  \/ \E o \in 1..MaxOrders : retryPaymentByCloningOrder(o) /\ Sequential

SpecRetry == Init /\ [][NextRetry]_vars

\* ---------------------------------------------------------------------
\* SpecConc: createOrder requests of one cart line each, interleaved at the
\* awaits of createOrder and consumeStockOrThrow.  Every write of a request
\* happens in its transaction: it is one atomic conditional update on the
\* product document, and abortTransaction takes back what the request wrote.
\* ---------------------------------------------------------------------
ZeroNet == [p \in Products |-> 0]

\* net change of a request after the store went from stk to stk2
addNet(n, stk, stk2) == [p \in Products |-> n[p] + stk2[p] - stk[p]]

\* createOrder up to the first findOneAndUpdate: Product.findById, the isActive
\* check and, for a bundle, the bundleStock check of consumeStockOrThrow
begin(i, p, qty) ==
  /\ pc[i] = "idle"
  /\ req' = [req EXCEPT ![i] = [productId |-> p, qty |-> qty]]
  /\ IF ~isActive[p] THEN pc' = [pc EXCEPT ![i] = "aborting"] /\ UNCHANGED idx
     ELSE IF Catalog[p].type # "BUNDLE"
       THEN pc' = [pc EXCEPT ![i] = "consume"] /\ UNCHANGED idx
     ELSE IF Len(Catalog[p].bundleItems) < 2 \/ getAvailableStock(p, stock, isActive) < qty
       THEN pc' = [pc EXCEPT ![i] = "aborting"] /\ UNCHANGED idx
     ELSE pc' = [pc EXCEPT ![i] = "child"] /\ idx' = [idx EXCEPT ![i] = 1]
  /\ UNCHANGED <<engineVars, decremented, net, rr, probe, call, history>>

\* consumeStockOrThrow, SINGLE product: the conditional decrement
consume(i) ==
  /\ pc[i] = "consume"
  /\ LET r == condDec(stock, isActive, req[i].productId, req[i].qty)
     IN /\ stock' = r.stock
        /\ net' = [net EXCEPT ![i] = addNet(@, stock, r.stock)]
        /\ pc' = [pc EXCEPT ![i] = IF r.ok THEN "create" ELSE "aborting"]
  /\ UNCHANGED <<isActive, soldCount, orders, soldAdded, req, idx, decremented, rr, probe, call, history>>

\* consumeStockOrThrow, BUNDLE: the conditional decrement of child idx[i]
child(i) ==
  /\ pc[i] = "child"
  /\ LET items == Catalog[req[i].productId].bundleItems
         bi == items[idx[i]]
         need == bi.qty * req[i].qty
         r == condDec(stock, isActive, bi.product, need)
     IN /\ stock' = r.stock
        /\ net' = [net EXCEPT ![i] = addNet(@, stock, r.stock)]
        /\ IF r.ok
             THEN /\ decremented' = [decremented EXCEPT ![i] =
                                       Append(@, [childId |-> bi.product, need |-> need])]
                  /\ IF idx[i] < Len(items)
                       THEN idx' = [idx EXCEPT ![i] = @ + 1] /\ UNCHANGED pc
                       ELSE pc' = [pc EXCEPT ![i] = "create"] /\ UNCHANGED idx
             ELSE /\ pc' = [pc EXCEPT ![i] = IF decremented[i] # <<>> THEN "rollback"
                                              ELSE "thrown"]
                  /\ UNCHANGED <<idx, decremented>>
  /\ UNCHANGED <<isActive, soldCount, orders, soldAdded, req, rr, probe, call, history>>

\* the catch block of consumeStockOrThrow: the rollback bulkWrite, then the rethrow
rollback(i) ==
  /\ pc[i] = "rollback"
  /\ stock' = rollbackOps(stock, decremented[i])
  /\ net' = [net EXCEPT ![i] = addNet(@, stock, stock')]
  /\ pc' = [pc EXCEPT ![i] = "thrown"]
  /\ UNCHANGED <<isActive, soldCount, orders, soldAdded, req, idx, decremented, rr, probe, call, history>>

\* the catch block of createOrder: abortTransaction
abort(i) ==
  /\ pc[i] \in {"aborting", "thrown"}
  /\ stock' = [p \in Products |-> stock[p] - net[i][p]]
  /\ net' = [net EXCEPT ![i] = ZeroNet]
  /\ pc' = [pc EXCEPT ![i] = "rejected"]
  /\ UNCHANGED <<isActive, soldCount, orders, soldAdded, req, idx, decremented, rr, probe, call, history>>

\* Order.create and commitTransaction
commit(i) ==
  /\ pc[i] = "create"
  /\ LET items == <<OrderItem(req[i].productId, paidUnit(Catalog[req[i].productId]),
                               req[i].qty)>>
     IN orders' = Append(orders, OrderDoc(items, calcTotal(items), "COD", "PENDING",
                                          "PLACED", FALSE, 0))
  /\ pc' = [pc EXCEPT ![i] = "committed"]
  /\ UNCHANGED <<stock, isActive, soldCount, soldAdded, req, idx, decremented, net, rr, probe, call, history>>

NextConc ==
  \/ \E i \in Procs, p \in Products, qty \in 1..MaxQty : begin(i, p, qty)
  \/ \E i \in Procs : consume(i)
  \/ \E i \in Procs : child(i)
  \/ \E i \in Procs : rollback(i)
  \/ \E i \in Procs : abort(i)
  \/ \E i \in Procs : commit(i)
  \/ \E p \in Products, b \in BOOLEAN : update(p, b) /\ UNCHANGED concVars

SpecConc == Init /\ [][NextConc]_vars

\* ---------------------------------------------------------------------
\* SpecRR: adminCompleteReturnOrReplacement calls on REPLACEMENT requests,
\* interleaved with each other and with the purchase, status, request and
\* RETURN completion handlers.  A call reads the order and checks its guards, then starts a
\* transaction, reads the order again and checks replacementOrderId, then
\* validates, deducts, creates the replacement order, saves the parent and
\* commits.  The transaction works on the snapshot of its first read; its
\* writes become visible at the commit, and a write to a document that was
\* changed after the snapshot fails with a write conflict, which aborts it.
\* ---------------------------------------------------------------------

\* Order.findById outside the transaction and the guards on what it read
rrRead(i, o) ==
  /\ pc[i] = "idle"
  /\ o \in OrderIds
  /\ orders[o].returnRequest.type = "REPLACEMENT"
  /\ IF completeRejects(orders[o])
       THEN UNCHANGED <<pc, rr>>
       ELSE /\ pc' = [pc EXCEPT ![i] = "rrGuarded"]
            /\ rr' = [rr EXCEPT ![i] = [NoCall EXCEPT !.o = o]]
  /\ UNCHANGED <<engineVars, req, idx, decremented, net, probe, call, history>>

\* startTransaction, the fresh read of the order and the duplicate check
rrBegin(i) ==
  /\ pc[i] = "rrGuarded"
  /\ LET freshOrder == orders[rr[i].o]
     IN IF alreadyReplaced(freshOrder)
          THEN /\ pc' = [pc EXCEPT ![i] = "idle"]
               /\ rr' = [rr EXCEPT ![i] = NoCall]
          ELSE /\ pc' = [pc EXCEPT ![i] = "rrTxn"]
               /\ rr' = [rr EXCEPT ![i] = [o |-> rr[i].o, order |-> freshOrder,
                                            stock |-> stock]]
  /\ UNCHANGED <<engineVars, req, idx, decremented, net, probe, call, history>>

\* the documents the transaction writes that were changed after its snapshot
writeConflict(i, written) ==
  \/ orders[rr[i].o] # rr[i].order
  \/ \E p \in Products : written[p] # rr[i].stock[p] /\ stock[p] # rr[i].stock[p]

\* the rest of the transaction: validation, deduction, Order.create, the save
\* of the parent and commitTransaction; a throw or a write conflict aborts
rrCommit(i) ==
  /\ pc[i] = "rrTxn"
  /\ LET o == rr[i].o
         order == rr[i].order
         v == replacementLines(order, 1, rr[i].stock, isActive, <<>>)
         c == consumeAll(v.repLines, rr[i].stock, isActive)
         newId == Len(orders) + 1
         replacementOrder ==
           OrderDoc([k \in 1..Len(v.repLines) |->
                       OrderItem(v.repLines[k].productId, 0, v.repLines[k].qty)],
                    0, "REPLACEMENT", "PAID", "CONFIRMED", TRUE, o)
         items2 == markReplaced(order.items, v.repLines)
         saved == [order EXCEPT
                     !.items = items2,
                     !.replacementOrderId = newId,
                     !.returnRequest.status = "COMPLETED",
                     !.status = IF isFullyReplaced(items2) THEN "REPLACED" ELSE @]
     IN IF ~v.ok \/ ~c.ok \/ writeConflict(i, c.stock)
          THEN UNCHANGED <<stock, orders>>
          ELSE /\ Len(orders) < MaxCarts + MaxReplacements
               /\ stock' = [p \in Products |->
                              IF c.stock[p] # rr[i].stock[p] THEN c.stock[p] ELSE stock[p]]
               /\ orders' = Append([orders EXCEPT ![o] = saved], replacementOrder)
  /\ pc' = [pc EXCEPT ![i] = "idle"]
  /\ rr' = [rr EXCEPT ![i] = NoCall]
  /\ UNCHANGED <<isActive, soldCount, soldAdded, req, idx, decremented, net, probe, call, history>>

NextRR ==
  \/ \E cart \in Carts : createOrder(cart, "COD") /\ Sequential
  \/ \E o \in 1..MaxOrders, st \in Statuses : adminUpdateStatus(o, st) /\ Sequential
  \/ \E o \in 1..MaxOrders, t \in RRTypes, rm \in ReqMaps :
        requestReturnOrReplacement(o, t, rm) /\ Sequential
  \/ \E o \in 1..MaxOrders, a \in {"APPROVE", "REJECT"} :
        adminDecideReturnOrReplacement(o, a) /\ Sequential
  \/ \E o \in 1..MaxOrders : cancelReturnOrReplacementRequest(o) /\ Sequential
  \/ \E o \in 1..MaxOrders :
        /\ o \in OrderIds /\ orders[o].returnRequest.type = "RETURN"
        /\ adminCompleteReturnOrReplacement(o) /\ Sequential
  \/ \E i \in Procs, o \in 1..MaxOrders : rrRead(i, o)
  \/ \E i \in Procs : rrBegin(i)
  \/ \E i \in Procs : rrCommit(i)

SpecRR == Init /\ [][NextRR]_vars

\* ---------------------------------------------------------------------
\* SpecReturn: adminCompleteReturnOrReplacement calls on RETURN requests.  A
\* call reads the order and checks its guards; later it runs its transaction,
\* which reads the order again (freshOrder) and works on that copy.  The
\* transactions of different calls run one after the other.
\* pc: "idle", "retGuarded" (the guards passed, the transaction not started).
\* ---------------------------------------------------------------------

\* Order.findById outside the transaction and the guards on what it read
retRead(i, o) ==
  /\ pc[i] = "idle"
  /\ o \in OrderIds
  /\ orders[o].returnRequest.type = "RETURN"
  /\ IF completeRejects(orders[o])
       THEN UNCHANGED <<pc, rr>>
       ELSE /\ pc' = [pc EXCEPT ![i] = "retGuarded"]
            /\ rr' = [rr EXCEPT ![i] = [NoCall EXCEPT !.o = o]]
  /\ UNCHANGED <<engineVars, req, idx, decremented, net, probe, call, history>>

\* the transaction of the RETURN branch, from startTransaction to the commit
\* or the abort
retTxn(i) ==
  /\ pc[i] = "retGuarded"
  /\ completeReturn(rr[i].o)
  /\ pc' = [pc EXCEPT ![i] = "idle"]
  /\ rr' = [rr EXCEPT ![i] = NoCall]
  /\ UNCHANGED <<isActive, soldAdded, req, idx, decremented, net, probe, call, history>>

NextReturn ==
  \/ \E cart \in Carts, m \in Methods : createOrder(cart, m) /\ Sequential
  \/ \E o \in 1..MaxOrders : createRazorpayOrder(o) /\ Sequential
  \/ \E o \in 1..MaxOrders : verifyRazorpayPayment(o, TRUE, TRUE) /\ Sequential
  \/ \E o \in 1..MaxOrders : adminUpdateStatus(o, "DELIVERED") /\ Sequential
  \/ \E o \in 1..MaxOrders, rm \in ReqMaps :
        requestReturnOrReplacement(o, "RETURN", rm) /\ Sequential
  \/ \E o \in 1..MaxOrders, a \in {"APPROVE", "REJECT"} :
        adminDecideReturnOrReplacement(o, a) /\ Sequential
  \/ \E i \in Procs, o \in 1..MaxOrders : retRead(i, o)
  \/ \E i \in Procs : retTxn(i)

SpecReturn == Init /\ [][NextReturn]_vars

\* ---------------------------------------------------------------------
\* SpecStale: cancelOrder, cancelItems and adminUpdateStatus as they run when
\* several requests are in flight.  None of them opens a transaction: a
\* request loads the order (Order.findById), changes its own copy, writes
\* stock (restockForOrderLine) and sold counts (Product.bulkWrite) to the
\* store at once, and writes the fields it changed with order.save() at the
\* end.  Each process serves one request.  The orders of this specification
\* are not replacement orders.
\* pc: "idle", "lines" (in the loop over order.items), "count" (before
\* incSoldCountOnceOnPaidDelivered), "save" (before order.save()), "done",
\* "failed" (the request ended in an error).
\* ---------------------------------------------------------------------
staleRest == <<isActive, req, idx, decremented, net, rr, probe, history>>

\* order.save(): the paths the request changed in its copy are written
savedDoc(stored, loaded, mem) ==
  [stored EXCEPT
     !.status = IF mem.status # loaded.status THEN mem.status ELSE @,
     !.totalAmount = IF mem.totalAmount # loaded.totalAmount THEN mem.totalAmount ELSE @,
     !.payment.status = IF mem.payment.status # loaded.payment.status
                          THEN mem.payment.status ELSE @,
     !.salesCounted = IF mem.salesCounted # loaded.salesCounted
                        THEN mem.salesCounted ELSE @,
     !.items = [k \in 1..Len(stored.items) |->
                  [stored.items[k] EXCEPT
                     !.cancelledQty =
                        IF mem.items[k].cancelledQty # loaded.items[k].cancelledQty
                          THEN mem.items[k].cancelledQty ELSE @]]]

\* cancelOrder up to "mark cancelled"
loadCancelOrder(i, o) ==
  /\ pc[i] = "idle"
  /\ o \in OrderIds
  /\ ~orders[o].isReplacement
  /\ IF cancelOrderRejects(orders[o])
       THEN /\ pc' = [pc EXCEPT ![i] = "failed"]
            /\ UNCHANGED call
       ELSE /\ pc' = [pc EXCEPT ![i] = "lines"]
            /\ call' = [call EXCEPT ![i] =
                  [NoLoad EXCEPT !.kind = "cancelOrder", !.o = o, !.status = "CANCELLED",
                                 !.loaded = orders[o],
                                 !.order = [orders[o] EXCEPT !.status = "CANCELLED"],
                                 !.line = 1]]
  /\ UNCHANGED <<engineVars, staleRest>>

\* cancelItems up to the "apply cancels" loop
loadCancelItems(i, o, reqMap) ==
  /\ pc[i] = "idle"
  /\ o \in OrderIds
  /\ IF orders[o].status \notin {"PLACED", "CONFIRMED"}
       THEN /\ pc' = [pc EXCEPT ![i] = "failed"]
            /\ UNCHANGED call
       ELSE /\ pc' = [pc EXCEPT ![i] = "lines"]
            /\ call' = [call EXCEPT ![i] =
                  [NoLoad EXCEPT !.kind = "cancelItems", !.o = o, !.reqMap = reqMap,
                                 !.loaded = orders[o], !.order = orders[o], !.line = 1]]
  /\ UNCHANGED <<engineVars, staleRest>>

\* adminUpdateStatus up to its restock loop
loadAdminUpdateStatus(i, o, status) ==
  /\ pc[i] = "idle"
  /\ o \in OrderIds
  /\ ~orders[o].isReplacement
  /\ IF adminUpdateStatusRejects(orders[o], status)
       THEN /\ pc' = [pc EXCEPT ![i] = "failed"]
            /\ UNCHANGED call
       ELSE LET order == orders[o]
                cancels == status = "CANCELLED" /\ order.status # "CANCELLED"
                pay2 == IF order.payment.method = "COD" /\ status = "DELIVERED" THEN "PAID"
                        ELSE IF order.payment.method = "COD" /\ status = "CANCELLED"
                          THEN "FAILED"
                        ELSE order.payment.status
                moved == [order EXCEPT !.status = status]
            IN /\ pc' = [pc EXCEPT ![i] =
                           IF cancels THEN "lines"
                           ELSE IF status = "DELIVERED" /\ pay2 = "PAID" THEN "count"
                           ELSE "save"]
               /\ call' = [call EXCEPT ![i] =
                     [NoLoad EXCEPT !.kind = "adminUpdateStatus", !.o = o,
                                    !.status = status, !.loaded = order,
                                    !.order = IF cancels THEN moved
                                              ELSE [moved EXCEPT !.payment.status = pay2],
                                    !.line = 1]]
  /\ UNCHANGED <<engineVars, staleRest>>

\* one pass of the loop over order.items of the request of process i, and,
\* after the last line, the handler's work up to order.save()
lineStep(i) ==
  /\ pc[i] = "lines"
  /\ LET c == call[i]
         line == c.order.items[c.line]
         last == c.line = Len(c.order.items)
         remaining == line.qty - line.cancelledQty
         cq == IF c.kind = "cancelItems" THEN c.reqMap[line.productId]
               ELSE IF remaining > 0 THEN remaining ELSE 0
         throws == c.kind = "cancelItems" /\ cq > remaining
         items2 == IF cq > 0 THEN [c.order.items EXCEPT ![c.line].cancelledQty = @ + cq]
                   ELSE c.order.items
         stock2 == IF cq > 0 THEN restockForOrderLine(stock, line.productId, cq) ELSE stock
         reqMap2 == IF c.kind = "cancelItems" THEN [c.reqMap EXCEPT ![line.productId] = 0]
                    ELSE c.reqMap
         full == isFullyCancelled(items2)
         pay2 == IF c.kind = "cancelOrder" THEN cancelOrderPayment(c.order)
                 ELSE IF c.kind = "cancelItems"
                   THEN (IF full THEN cancelItemsPayment(c.order) ELSE c.order.payment.status)
                 ELSE IF c.order.payment.method = "COD" THEN "FAILED"
                 ELSE c.order.payment.status
         done == [c.order EXCEPT
                    !.items = items2,
                    !.totalAmount = recomputeTotalAfterCancel(items2),
                    !.status = IF c.kind = "cancelItems" /\ full THEN "CANCELLED" ELSE @,
                    !.payment.status = pay2]
     IN IF throws
          THEN /\ pc' = [pc EXCEPT ![i] = "failed"]
               /\ UNCHANGED <<stock, call>>
          ELSE /\ stock' = stock2
               /\ IF last /\ reqMap2 # [p \in Products |-> 0]
                    THEN /\ pc' = [pc EXCEPT ![i] = "failed"]
                         /\ call' = [call EXCEPT
                               ![i].released = [p \in Products |-> @[p] + stock2[p] - stock[p]]]
                    ELSE /\ pc' = [pc EXCEPT ![i] = IF last THEN "save" ELSE "lines"]
                         /\ call' = [call EXCEPT
                               ![i].order = IF last THEN done
                                            ELSE [c.order EXCEPT !.items = items2],
                               ![i].reqMap = reqMap2,
                               ![i].line = c.line + 1,
                               ![i].released =
                                  [p \in Products |-> @[p] + stock2[p] - stock[p]]]
  /\ UNCHANGED <<isActive, soldCount, orders, soldAdded, staleRest>>

\* incSoldCountOnceOnPaidDelivered(order) on the copy of process i
countStep(i) ==
  /\ pc[i] = "count"
  /\ LET c == call[i]
         counts == countsSale(c.order)
     IN /\ soldCount' = (IF counts
                           THEN [p \in Products |-> soldCount[p] + soldInc(c.order.items, p)]
                           ELSE soldCount)
        /\ soldAdded' = (IF counts
                           THEN [soldAdded EXCEPT ![c.o] =
                                   [p \in Products |-> @[p] + soldInc(c.order.items, p)]]
                           ELSE soldAdded)
        /\ call' = [call EXCEPT ![i].order.salesCounted = IF counts THEN TRUE ELSE @]
  /\ pc' = [pc EXCEPT ![i] = "save"]
  /\ UNCHANGED <<stock, isActive, orders, staleRest>>

\* order.save() of process i; ok = FALSE: the save fails and writes nothing
saveStep(i, ok) ==
  /\ pc[i] = "save"
  /\ LET c == call[i]
     IN IF ok
          THEN /\ orders' = [orders EXCEPT ![c.o] = savedDoc(orders[c.o], c.loaded, c.order)]
               /\ pc' = [pc EXCEPT ![i] = "done"]
          ELSE /\ UNCHANGED orders
               /\ pc' = [pc EXCEPT ![i] = "failed"]
  /\ UNCHANGED <<stock, isActive, soldCount, soldAdded, call, staleRest>>

NextStale ==
  \/ \E cart \in Carts, m \in Methods : createOrder(cart, m) /\ Sequential
  \/ \E o \in 1..MaxOrders : createRazorpayOrder(o) /\ Sequential
  \/ \E o \in 1..MaxOrders : verifyRazorpayPayment(o, TRUE, TRUE) /\ Sequential
  \/ \E i \in Procs, o \in 1..MaxOrders : loadCancelOrder(i, o)
  \/ \E i \in Procs, o \in 1..MaxOrders, rm \in ReqMaps : loadCancelItems(i, o, rm)
  \/ \E i \in Procs, o \in 1..MaxOrders, st \in allowed : loadAdminUpdateStatus(i, o, st)
  \/ \E i \in Procs : lineStep(i)
  \/ \E i \in Procs : countStep(i)
  \/ \E i \in Procs, ok \in BOOLEAN : saveStep(i, ok)

SpecStale == Init /\ [][NextStale]_vars

\* ---------------------------------------------------------------------
\* SpecHistory: the handlers of Spec together with what each of them writes to
\* Order.statusHistory.  An entry is modelled by its status; order.save()
\* sends the entries pushed to the copy as an append.  A handler that throws
\* before its save pushes nothing.
\* ---------------------------------------------------------------------

\* order.statusHistory.push({status: s, ...}) on order o
push(h, o, s) == [h EXCEPT ![o] = Append(@, s)]

\* variant of pushParent: the refund of the parent is not recorded
pushParentSilent(h, o) == h

\* "Refund ORIGINAL order if paid": the entry pushed to the parent of order o
pushParent(h, o) ==
  LET par == orders[o].parentOrderId
  IN IF par # 0 /\ par \in OrderIds /\ orders[par].payment.status = "PAID"
       THEN push(h, par, "REFUNDED")
       ELSE h

createOrderLog(cart) ==
  IF createLines(cart, 1, stock, isActive, <<>>).ok
    THEN [history EXCEPT ![Len(orders) + 1] = <<"PLACED">>]
    ELSE history

adminUpdateStatusLog(o, status) ==
  IF adminUpdateStatusRejects(orders[o], status) THEN history
  ELSE IF orders[o].isReplacement /\ status = "CANCELLED"
    THEN pushParent(push(history, o, "CANCELLED"), o)
  ELSE push(history, o, status)

cancelOrderLog(o) ==
  IF cancelOrderRejects(orders[o]) THEN history
  ELSE IF orders[o].isReplacement THEN pushParent(push(history, o, "CANCELLED"), o)
  ELSE push(history, o, "CANCELLED")

cancelItemsLog(o, reqMap) ==
  LET r == applyCancels(orders[o].items, 1, reqMap, stock)
  IN IF orders[o].status \notin {"PLACED", "CONFIRMED"} THEN history
     ELSE IF ~r.ok \/ r.reqMap # [p \in Products |-> 0] THEN history
     ELSE push(history, o, "PARTIAL_CANCEL")

requestLog(o, type, reqMap) ==
  IF requestRejects(orders[o], type, reqMap) THEN history
  ELSE push(history, o, IF type = "RETURN" THEN "RR_REQUESTED_RETURN"
                        ELSE "RR_REQUESTED_REPLACEMENT")

decideLog(o, action) ==
  IF decideRejects(orders[o]) THEN history
  ELSE push(history, o, IF action = "APPROVE" THEN "RR_APPROVED" ELSE "RR_REJECTED")

cancelRequestLog(o) ==
  IF cancelRequestRejects(orders[o]) THEN history
  ELSE push(history, o, IF orders[o].returnRequest.type = "RETURN" THEN "RR_CANCELLED_RETURN"
                        ELSE "RR_CANCELLED_REPLACEMENT")

completeReturnLog(o) ==
  LET order == orders[o]
      r == returnLoop(order, 1, order.items, stock, [p \in Products |-> 0])
      full == isFullyReturned(r.items)
      h == push(history, o, IF full THEN "RETURNED" ELSE "PARTIAL_RETURNED")
  IN IF ~r.ok THEN history
     ELSE IF order.isReplacement /\ order.parentOrderId # 0 /\ full THEN pushParent(h, o)
     ELSE h

completeReplacementLog(o) ==
  LET order == orders[o]
      v == replacementLines(order, 1, stock, isActive, <<>>)
      c == consumeAll(v.repLines, stock, isActive)
      items2 == markReplaced(order.items, v.repLines)
  IN IF alreadyReplaced(order) \/ ~v.ok \/ ~c.ok THEN history
     ELSE [push(history, o, IF isFullyReplaced(items2) THEN "REPLACED"
                            ELSE "PARTIAL_REPLACED")
             EXCEPT ![Len(orders) + 1] = <<"CONFIRMED">>]

completeLog(o) ==
  IF completeRejects(orders[o]) THEN history
  ELSE IF orders[o].returnRequest.type = "RETURN" THEN completeReturnLog(o)
  ELSE completeReplacementLog(o)

adminRefundLog(o) ==
  IF \/ orders[o].status \notin {"CANCELLED", "RETURNED"}
     \/ orders[o].payment.status # "PAID"
    THEN history
    ELSE push(history, o, "REFUNDED")

createRazorpayOrderLog(o) ==
  LET order == orders[o]
  IN IF \/ order.status = "CANCELLED"
        \/ order.isReplacement
        \/ order.payment.status = "PAID"
        \/ order.totalAmount <= 0
       THEN history
     ELSE IF order.razorpayOrderId /\ order.payment.status = "PENDING" THEN history
     ELSE push(history, o, "PAYMENT_ORDER_CREATED")

verifyLog(o, sameId, sigOk) ==
  IF orders[o].status = "CANCELLED" \/ orders[o].payment.status = "PAID" \/ ~sameId
    THEN history
  ELSE IF ~sigOk THEN push(history, o, "PAYMENT_FAILED")
  ELSE push(history, o, "PAID")

cancelAttemptLog(o) ==
  IF orders[o].payment.status = "PAID" THEN history
  ELSE push(history, o, "PAYMENT_CANCELLED")

refundRazorpayLog(o, amountOk) ==
  IF \/ orders[o].payment.method # "RAZORPAY"
     \/ orders[o].payment.status # "PAID"
     \/ ~amountOk
    THEN history
    ELSE push(history, o, "REFUNDED")

\* a handler that runs alone and leaves the history h
Logged(h) ==
  /\ UNCHANGED <<pc, req, idx, decremented, net, rr, probe, call>>
  /\ \A p \in Products : stock'[p] <= MaxStock
  /\ \A o \in 1..MaxOrders : Len(h[o]) <= MaxHistory
  /\ history' = h

NextHistory ==
  \/ \E cart \in Carts, m \in {"COD", "RAZORPAY"} :
        createOrder(cart, m) /\ Logged(createOrderLog(cart))
  \/ \E o \in OrderIds, st \in {"CONFIRMED", "DELIVERED", "CANCELLED"} :
        adminUpdateStatus(o, st) /\ Logged(adminUpdateStatusLog(o, st))
  \/ \E o \in OrderIds : cancelOrder(o) /\ Logged(cancelOrderLog(o))
  \/ \E o \in OrderIds, rm \in ReqMaps : cancelItems(o, rm) /\ Logged(cancelItemsLog(o, rm))
  \/ \E o \in OrderIds, t \in RRTypes, rm \in ReqMaps :
        requestReturnOrReplacement(o, t, rm) /\ Logged(requestLog(o, t, rm))
  \/ \E o \in OrderIds, a \in {"APPROVE", "REJECT"} :
        adminDecideReturnOrReplacement(o, a) /\ Logged(decideLog(o, a))
  \/ \E o \in OrderIds : adminCompleteReturnOrReplacement(o) /\ Logged(completeLog(o))
  \/ \E o \in OrderIds : cancelReturnOrReplacementRequest(o) /\ Logged(cancelRequestLog(o))
  \/ \E o \in OrderIds : adminRefundOrder(o) /\ Logged(adminRefundLog(o))
  \/ \E o \in OrderIds : createRazorpayOrder(o) /\ Logged(createRazorpayOrderLog(o))
  \/ \E o \in OrderIds, same \in BOOLEAN, sig \in BOOLEAN :
        verifyRazorpayPayment(o, same, sig) /\ Logged(verifyLog(o, same, sig))
  \/ \E o \in OrderIds : cancelRazorpayAttempt(o) /\ Logged(cancelAttemptLog(o))
  \/ \E o \in OrderIds, ok \in BOOLEAN :
        refundRazorpayPayment(o, ok) /\ Logged(refundRazorpayLog(o, ok))

SpecHistory == Init /\ [][NextHistory]_vars

\* ---------------------------------------------------------------------
\* SpecPurge: the RETURN branch of adminCompleteReturnOrReplacement with what
\* follows its commit: the purge of the customer's reviews of the returned
\* products (deleteUserReviewsForProducts), which may fail.  The purge is
\* inside the try block of the transaction, so its failure reaches the catch
\* block, which calls abortTransaction on the committed transaction.
\* pc: "idle", "retCommitted" (committed, the purge not yet run),
\* "purgeFailed" (the request ended with the error of the purge).
\* ---------------------------------------------------------------------

\* variant of abortAfterCommit: the abort takes the committed writes back
abortAfterCommitUnwinds(committed, before) == before

\* session.abortTransaction() on a transaction that has committed: the call
\* is refused and the committed writes stay
abortAfterCommit(committed, before) == committed

\* the handler up to commitTransaction (or up to its throw)
returnCommit(i, o) ==
  /\ pc[i] = "idle"
  /\ o \in OrderIds
  /\ orders[o].returnRequest.type = "RETURN"
  /\ adminCompleteReturnOrReplacement(o)
  /\ IF /\ ~completeRejects(orders[o])
        /\ returnLoop(orders[o], 1, orders[o].items, stock, [p \in Products |-> 0]).ok
       THEN /\ pc' = [pc EXCEPT ![i] = "retCommitted"]
            /\ rr' = [rr EXCEPT ![i] = [o |-> o, order |-> orders[o], stock |-> stock]]
       ELSE UNCHANGED <<pc, rr>>
  /\ UNCHANGED <<req, idx, decremented, net, probe, call, history>>

\* deleteUserReviewsForProducts and the end of the handler; ok = FALSE: the
\* purge throws and the catch block runs
reviewPurge(i, ok) ==
  /\ pc[i] = "retCommitted"
  /\ LET before == [stock |-> rr[i].stock,
                    orders |-> [orders EXCEPT ![rr[i].o] = rr[i].order]]
         after == IF ok THEN [stock |-> stock, orders |-> orders]
                  ELSE abortAfterCommit([stock |-> stock, orders |-> orders], before)
     IN /\ stock' = after.stock
        /\ orders' = after.orders
  /\ pc' = [pc EXCEPT ![i] = IF ok THEN "idle" ELSE "purgeFailed"]
  /\ UNCHANGED <<isActive, soldCount, soldAdded, req, idx, decremented, net, rr, probe,
                 call, history>>

NextPurge ==
  \/ \E cart \in Carts, m \in Methods : createOrder(cart, m) /\ Sequential
  \/ \E o \in 1..MaxOrders : adminUpdateStatus(o, "DELIVERED") /\ Sequential
  \/ \E o \in 1..MaxOrders : createRazorpayOrder(o) /\ Sequential
  \/ \E o \in 1..MaxOrders : verifyRazorpayPayment(o, TRUE, TRUE) /\ Sequential
  \/ \E o \in 1..MaxOrders, rm \in ReqMaps :
        requestReturnOrReplacement(o, "RETURN", rm) /\ Sequential
  \/ \E o \in 1..MaxOrders, a \in {"APPROVE", "REJECT"} :
        adminDecideReturnOrReplacement(o, a) /\ Sequential
  \/ \E i \in Procs, o \in 1..MaxOrders : returnCommit(i, o)
  \/ \E i \in Procs, ok \in BOOLEAN : reviewPurge(i, ok)

SpecPurge == Init /\ [][NextPurge]_vars

\* ---------------------------------------------------------------------
\* SpecCreate: one createOrder call.  The catalogue may hold any stock up to
\* InitStock and have any product switched off; the cart may name a product
\* that has no document ("X") and quantities of 0.
\* ---------------------------------------------------------------------
CartProducts == Products \cup {"X"}

CartsAll == UNION {[1..n -> [productId : CartProducts, qty : 0..MaxQty]] : n \in 1..MaxLines}

InitCreate ==
  /\ stock \in {f \in [Products -> 0..InitStock] : f["K"] = 0}
  /\ isActive \in [Products -> BOOLEAN]
  /\ soldCount = [p \in Products |-> 0]
  /\ orders = <<>>
  /\ soldAdded = [o \in 1..MaxOrders |-> [p \in Products |-> 0]]
  /\ pc = [i \in Procs |-> "idle"]
  /\ req = [i \in Procs |-> [productId |-> "A", qty |-> 0]]
  /\ idx = [i \in Procs |-> 0]
  /\ decremented = [i \in Procs |-> <<>>]
  /\ net = [i \in Procs |-> [p \in Products |-> 0]]
  /\ rr = [i \in Procs |-> NoCall]
  /\ probe = NoProbe
  /\ call = [i \in Procs |-> NoLoad]
  /\ history = NoHistory

NextCreate ==
  \/ \E cart \in CartsAll, m \in Methods : createOrder(cart, m) /\ Sequential

SpecCreate == InitCreate /\ [][NextCreate]_vars

\* ---------------------------------------------------------------------
\* SpecBundle: getAvailableStock and the BUNDLE part of consumeStockOrThrow as
\* functions of the bundle's items and of the children's documents.  A child
\* may be missing ("X"), switched off, or a bundle itself ("K"); the quantity
\* per bundle may be 0; a definition may have fewer than two children.  The
\* children of a definition are distinct (computeBundleTotals refuses
\* duplicates when a bundle is stored).
\* ---------------------------------------------------------------------
BundleItems == [product : Products \cup {"X"}, qty : 0..MaxPerBundle]

BundleDefs ==
  {d \in UNION {[1..n -> BundleItems] : n \in 0..2} :
     \A i, j \in 1..Len(d) : i # j => d[i].product # d[j].product}

StockSamples == {0, 1, 2, 4, 5, 10}

InitBundle ==
  /\ stock \in {f \in [Products -> StockSamples] : f["K"] = 0}
  /\ isActive \in {f \in [Products -> BOOLEAN] : f["K"]}
  /\ soldCount = [p \in Products |-> 0]
  /\ orders = <<>>
  /\ soldAdded = [o \in 1..MaxOrders |-> [p \in Products |-> 0]]
  /\ pc = [i \in Procs |-> "idle"]
  /\ req = [i \in Procs |-> [productId |-> "A", qty |-> 0]]
  /\ idx = [i \in Procs |-> 0]
  /\ decremented = [i \in Procs |-> <<>>]
  /\ net = [i \in Procs |-> [p \in Products |-> 0]]
  /\ rr = [i \in Procs |-> NoCall]
  /\ probe \in {[NoProbe EXCEPT !.items = d] : d \in BundleDefs}
               \cup {[NoProbe EXCEPT !.product = p] : p \in Singles}
  /\ call = [i \in Procs |-> NoLoad]
  /\ history = NoHistory

\* getAvailableStock(bundle)
\* Math.floor(stock / need) of one populated bundle item: a child that
\* was not found has no stock field (0), a qty of 0 counts as 1
maxQtyOfItem(it, stk) ==
  LET childStock == IF it.product \in Products THEN stk[it.product] ELSE 0
      need == IF it.qty = 0 THEN 1 ELSE it.qty
  IN childStock \div need

\* computeBundleMaxQty of a bundle document whose bundleItems are items
RECURSIVE computeBundleMaxQty(_, _)
computeBundleMaxQty(items, stk) ==
  IF items = <<>> THEN 0
  ELSE IF Len(items) = 1 THEN maxQtyOfItem(items[1], stk)
  ELSE Min(maxQtyOfItem(Head(items), stk), computeBundleMaxQty(Tail(items), stk))

\* the bundle as the order engine measures it (getAvailableStock) and as the
\* catalog's bulk handler shows it (bundleStock = computeBundleMaxQty)
measureBundle ==
  /\ probe.product = ""
  /\ probe.available = NULL
  /\ probe' = [probe EXCEPT !.available = bundleStock(probe.items, stock, isActive),
                            !.maxQty = computeBundleMaxQty(probe.items, stock)]
  /\ UNCHANGED <<engineVars, pc, req, idx, decremented, net, rr, call, history>>

\* consumeStockOrThrow(bundle, n)
reserveBundle(n) ==
  /\ probe.available # NULL
  /\ probe.n = 0
  /\ LET r == consumeBundle(probe.items, n, stock, isActive)
     IN /\ stock' = r.stock
        /\ probe' = [probe EXCEPT !.n = n, !.ok = r.ok, !.before = stock]
  /\ UNCHANGED <<isActive, soldCount, orders, soldAdded, pc, req, idx, decremented, net, rr, call, history>>

\* consumeStockOrThrow(product, n) for a SINGLE product
reserveSingle(n) ==
  /\ probe.product # ""
  /\ probe.n = 0
  /\ LET r == consumeStockOrThrow(probe.product, n, stock, isActive)
     IN /\ stock' = r.stock
        /\ probe' = [probe EXCEPT !.n = n, !.ok = r.ok, !.before = stock]
  /\ UNCHANGED <<isActive, soldCount, orders, soldAdded, pc, req, idx, decremented, net, rr, call, history>>

\* restockForOrderLine(product, n) with the quantity of the reservation
releaseProbe ==
  /\ probe.n > 0
  /\ ~probe.released
  /\ stock' = (IF probe.product # ""
                 THEN restockForOrderLine(stock, probe.product, probe.n)
                 ELSE restockChildren(stock, probe.items, probe.n))
  /\ probe' = [probe EXCEPT !.released = TRUE]
  /\ UNCHANGED <<isActive, soldCount, orders, soldAdded, pc, req, idx, decremented, net, rr, call, history>>

NextBundle ==
  \/ measureBundle
  \/ \E n \in 1..MaxReserve : reserveBundle(n)
  \/ \E n \in 1..MaxReserve : reserveSingle(n)
  \/ releaseProbe

SpecBundle == InitBundle /\ [][NextBundle]_vars

\* ---------------------------------------------------------------------
\* SpecLegacy: the createOrder of src/src/controllers/order.controller.js,
\* which runs without a transaction, called by NumProcs clients at once
\* with one cart line each.  A call loads the product and compares its
\* stock with the quantity; later it stores the loaded stock minus the
\* quantity (product.save() writes the value computed from the loaded
\* document); later it creates the order.
\* pc: "idle", "legacyLoaded" (the checks passed), "legacySaved".
\* req[i] is the cart line, rr[i].stock the stock of the loaded document.
\* ---------------------------------------------------------------------
legacyPrice(product) ==
  IF product.discountPrice # NULL THEN product.discountPrice ELSE product.price

\* product.stock -= qty on the loaded document, then product.save()
legacyStock(loaded, current, qty) == loaded - qty

legacyLoad(i, p, qty) ==
  /\ pc[i] = "idle"
  /\ Len(orders) + Cardinality({j \in Procs : pc[j] # "idle"}) < MaxOrders
  /\ p \in Products
  /\ isActive[p]
  /\ qty > 0
  /\ ~(stock[p] < qty)
  /\ pc' = [pc EXCEPT ![i] = "legacyLoaded"]
  /\ req' = [req EXCEPT ![i] = [productId |-> p, qty |-> qty]]
  /\ rr' = [rr EXCEPT ![i] = [NoCall EXCEPT !.stock[p] = stock[p]]]
  /\ UNCHANGED <<stock, isActive, soldCount, orders, soldAdded, idx, decremented, net, probe, call, history>>

legacySave(i) ==
  /\ pc[i] = "legacyLoaded"
  /\ LET p == req[i].productId
     IN stock' = [stock EXCEPT ![p] = legacyStock(rr[i].stock[p], @, req[i].qty)]
  /\ pc' = [pc EXCEPT ![i] = "legacySaved"]
  /\ UNCHANGED <<isActive, soldCount, orders, soldAdded, req, idx, decremented, net, rr, probe, call, history>>

legacyCreate(i) ==
  /\ pc[i] = "legacySaved"
  /\ LET p == req[i].productId
         items == << OrderItem(p, legacyPrice(Catalog[p]), req[i].qty) >>
     IN orders' = Append(orders, OrderDoc(items, calcTotal(items), "COD", "PENDING",
                                          "PLACED", FALSE, 0))
  /\ pc' = [pc EXCEPT ![i] = "idle"]
  /\ req' = [req EXCEPT ![i] = [productId |-> "A", qty |-> 0]]
  /\ rr' = [rr EXCEPT ![i] = NoCall]
  /\ UNCHANGED <<stock, isActive, soldCount, soldAdded, idx, decremented, net, probe, call, history>>

NextLegacy ==
  \/ \E i \in Procs, p \in Singles, qty \in 1..MaxQty : legacyLoad(i, p, qty)
  \/ \E i \in Procs : legacySave(i)
  \/ \E i \in Procs : legacyCreate(i)

SpecLegacy == Init /\ [][NextLegacy]_vars

\* =====================================================================
\* Properties
\* =====================================================================

\* units of product p in the committed requests
RECURSIVE succeededQty(_, _)
succeededQty(p, procs) ==
  IF procs = {} THEN 0
  ELSE LET i == CHOOSE x \in procs : TRUE
       IN (IF pc[i] = "committed" /\ req[i].productId = p THEN req[i].qty ELSE 0)
          + succeededQty(p, procs \ {i})

C2_BundleAtomicity ==
  \A i \in Procs :
    pc[i] = "thrown" =>
      \A k \in 1..(idx[i] - 1) :
        net[i][Catalog[req[i].productId].bundleItems[k].product] = 0

\* a bundle reservation has failed on its second child after it had
\* decremented the first, while another request holds units of that first child
C2_Witness ==
  \E i, j \in Procs :
    /\ i # j
    /\ pc[i] = "thrown" /\ idx[i] = 2 /\ decremented[i] # <<>>
    /\ net[j][decremented[i][1].childId] < 0

\* C3 - Line-counter invariant.  Every line of every order satisfies
\* cancelledQty + returnedQty + replacedQty <= qty in every reachable state.
C3_LineCounters ==
  \A o \in OrderIds : \A i \in 1..Len(orders[o].items) :
    LET it == orders[o].items[i]
    IN it.cancelledQty + it.returnedQty + it.replacedQty <= it.qty

\* sum over the lines of (qty - cancelledQty) x priceSnapshot
RECURSIVE lineSum(_)
lineSum(items) ==
  IF items = <<>> THEN 0
  ELSE (Head(items).qty - Head(items).cancelledQty) * Head(items).priceSnapshot
       + lineSum(Tail(items))

\* C4 - Total invariant.  In every reachable state the totalAmount of every
\* order is the sum over its lines of (qty - cancelledQty) x priceSnapshot
\* (0 for a replacement order, whose lines carry priceSnapshot 0).
C4_TotalInvariant ==
  \A o \in OrderIds : orders[o].totalAmount = lineSum(orders[o].items)

\* a retry clone that was then cancelled in part: its total is what is left
C4_Witness ==
  /\ Len(orders) = 2
  /\ ~orders[2].isReplacement
  /\ orders[1].status = "CANCELLED" /\ orders[1].totalAmount = 0
  /\ \E i \in 1..Len(orders[2].items) :
        /\ orders[2].items[i].cancelledQty > 0
        /\ orders[2].items[i].cancelledQty < orders[2].items[i].qty
  /\ orders[2].totalAmount > 0

\* C5 - Terminal immutability.  Once the status of an order is CANCELLED,
\* RETURNED or REPLACED, no step changes it.
C5_TerminalImmutable ==
  [][\A o \in OrderIds :
       orders[o].status \in Terminal => orders'[o].status = orders[o].status]_vars

\* C6 - An order's status changes to CANCELLED only in a step whose pre-state
\* status is PLACED or CONFIRMED (never from SHIPPED or DELIVERED).
C6_CancelOnlyWhenOpen ==
  [][\A o \in OrderIds :
       (orders'[o].status = "CANCELLED" /\ orders[o].status # "CANCELLED")
         => orders[o].status \in {"PLACED", "CONFIRMED"}]_vars

\* C7 - Sales idempotence.  The sold-counts grow only in a step that counts
\* an order not counted before, by what the step records for that order; an
\* order once counted stays counted; and adminUpdateStatus on a counted
\* order (a delivery replay included) leaves every sold-count unchanged.
C7_SalesIdempotence ==
  [][/\ \A p \in Products :
          soldCount'[p] > soldCount[p] =>
            \E o \in OrderIds :
              /\ ~orders[o].salesCounted /\ orders'[o].salesCounted
              /\ soldAdded[o][p] = 0
              /\ soldAdded'[o][p] = soldCount'[p] - soldCount[p]
              /\ \A o2 \in OrderIds \ {o} : soldAdded'[o2] = soldAdded[o2]
     /\ \A o \in OrderIds :
          orders[o].salesCounted =>
            /\ orders'[o].salesCounted
            /\ soldAdded'[o] = soldAdded[o]
            /\ \A st \in Statuses :
                  adminUpdateStatus(o, st) => soldCount' = soldCount]_vars

\* a paid order was delivered and counted: the sold-count holds its units once
C7_Witness ==
  \E o \in OrderIds : \E p \in Products :
    /\ orders[o].salesCounted /\ orders[o].status = "DELIVERED"
    /\ soldAdded[o][p] = MaxQty /\ soldCount[p] = MaxQty

\* C8 - Rollback boundedness.  For every order o and product p the
\* salesRolledBack entry of o for p never exceeds what o added to the
\* sold-count of p when it was counted.
C8_RollbackBounded ==
  \A o \in OrderIds : \A p \in Products :
    orders[o].salesRolledBack[p] <= soldAdded[o][p]

\* a counted order was returned in part and its sale rolled back by that part
C8_Witness ==
  \E o \in OrderIds : \E p \in Products :
    /\ orders[o].salesCounted
    /\ orders[o].salesRolledBack[p] = 1 /\ soldAdded[o][p] = 2 /\ soldCount[p] = 1

\* C9 - adminUpdateStatus on a DELIVERED order with target PLACED, CONFIRMED,
\* SHIPPED or CANCELLED changes neither the orders nor any stock or
\* sold-count; with target RETURNED or REPLACED it changes nothing on any
\* order; and a status becomes RETURNED or REPLACED only in a step of
\* adminCompleteReturnOrReplacement on that order.
C9_DeliveredGuard ==
  [][\A o \in OrderIds :
       /\ \A st \in Statuses :
            ( /\ adminUpdateStatus(o, st)
              /\ \/ st \in {"RETURNED", "REPLACED"}
                 \/ /\ orders[o].status = "DELIVERED"
                    /\ st \in {"PLACED", "CONFIRMED", "SHIPPED", "CANCELLED"} )
            => UNCHANGED <<orders, stock, soldCount>>
       /\ ( /\ orders'[o].status \in {"RETURNED", "REPLACED"}
            /\ orders'[o].status # orders[o].status )
            => adminCompleteReturnOrReplacement(o)]_vars

\* an order that was DELIVERED has become RETURNED through the completion of
\* its return request
C9_Witness ==
  \E o \in OrderIds :
    /\ orders[o].status = "RETURNED"
    /\ orders[o].returnRequest.status = "COMPLETED"
    /\ orders[o].returnRequest.type = "RETURN"

\* units of product p that one unit of product q holds
unitsOf(q, p) ==
  IF Catalog[q].type # "BUNDLE" THEN (IF q = p THEN 1 ELSE 0)
  ELSE SumSeq([k \in 1..Len(Catalog[q].bundleItems) |->
                 IF Catalog[q].bundleItems[k].product = p
                   THEN Catalog[q].bundleItems[k].qty ELSE 0])

\* units of product p in the not yet cancelled quantities of the lines
released(items, p) ==
  SumSeq([i \in 1..Len(items) |->
            (items[i].qty - items[i].cancelledQty) * unitsOf(items[i].productId, p)])

\* C10 - When cancelOrder or adminUpdateStatus(CANCELLED) moves an order from
\* PLACED or CONFIRMED to CANCELLED, the stock of every SINGLE product grows
\* by exactly the units its lines still held (qty - cancelledQty per line,
\* times the units per bundle for a bundle child), every cancelledQty becomes
\* qty and totalAmount becomes 0.
C10_CancelRestock ==
  [][\A o \in OrderIds :
       ( /\ orders[o].status \in {"PLACED", "CONFIRMED"}
         /\ orders'[o].status = "CANCELLED"
         /\ cancelOrder(o) \/ adminUpdateStatus(o, "CANCELLED") )
       => /\ \A p \in Singles :
               stock'[p] = stock[p] + released(orders[o].items, p)
          /\ stock'["K"] = stock["K"]
          /\ \A i \in 1..Len(orders[o].items) :
               orders'[o].items[i].cancelledQty = orders[o].items[i].qty
          /\ orders'[o].totalAmount = 0]_vars

\* a replacement order was cancelled while CONFIRMED: its lines are cancelled
\* in full and its total is 0
C10_Witness ==
  \E o \in OrderIds :
    /\ orders[o].isReplacement /\ orders[o].payment.method = "REPLACEMENT"
    /\ orders[o].status = "CANCELLED" /\ orders[o].totalAmount = 0
    /\ \A i \in 1..Len(orders[o].items) :
          orders[o].items[i].cancelledQty = orders[o].items[i].qty
    /\ orders[o].returnRequest.status = "NONE"

\* C11 - cancelItems is accepted only while the order is PLACED or CONFIRMED
\* and only if every requested quantity c names a line with
\* c <= qty - cancelledQty.  On success each named line's cancelledQty grows
\* by c, the stock of its product grows by exactly c (for a bundle: of each
\* child by c times the units per bundle), totalAmount is recomputed from the
\* lines, the lines not named and the other orders are unchanged, and the
\* status becomes CANCELLED exactly when every line has cancelledQty = qty.
C11_CancelItems ==
  [][\A o \in OrderIds : \A rm \in ReqMaps :
       (cancelItems(o, rm) /\ orders' # orders)
       => LET order == orders[o]
              new == orders'[o]
          IN /\ order.status \in {"PLACED", "CONFIRMED"}
             /\ \A p \in Products : rm[p] > 0 =>
                  \E i \in 1..Len(order.items) :
                     /\ order.items[i].productId = p
                     /\ rm[p] <= order.items[i].qty - order.items[i].cancelledQty
             /\ Len(new.items) = Len(order.items)
             /\ \A i \in 1..Len(order.items) :
                  new.items[i] = [order.items[i] EXCEPT
                                    !.cancelledQty = @ + rm[order.items[i].productId]]
             /\ \A s \in Singles :
                  stock'[s] = stock[s]
                    + SumSeq([k \in 1..Len(ProductOrder) |->
                                rm[ProductOrder[k]] * unitsOf(ProductOrder[k], s)])
             /\ stock'["K"] = stock["K"]
             /\ new.totalAmount = lineSum(new.items)
             /\ (new.status = "CANCELLED") <=>
                  (\A i \in 1..Len(new.items) :
                      new.items[i].cancelledQty = new.items[i].qty)
             /\ new.status # "CANCELLED" => new.status = order.status
             /\ Len(orders') = Len(orders)
             /\ \A x \in OrderIds \ {o} : orders'[x] = orders[x]]_vars

\* one of the two units of a line of A was cancelled: the order is still open,
\* its total is one unit's price and one unit has gone back to the stock
C11_Witness ==
  \E o \in OrderIds :
    /\ orders[o].status \in {"PLACED", "CONFIRMED"}
    /\ Len(orders[o].items) = 1
    /\ orders[o].items[1].productId = "A"
    /\ orders[o].items[1].qty = 2
    /\ orders[o].items[1].cancelledQty = 1
    /\ orders[o].totalAmount = orders[o].items[1].priceSnapshot
    /\ ~orders[o].isReplacement
    /\ stock["A"] = InitStock - 1

\* C12 - requestReturnOrReplacement succeeds only if the order is DELIVERED,
\* its returnRequest status is NONE, every requested product is a line of the
\* order with requested quantity <= qty - cancelledQty - returnedQty -
\* replacedQty, and, for type REPLACEMENT, the order is not itself a
\* replacement.  On success the request is stored with status REQUESTED and
\* the requested quantities verbatim; in every other case the order is
\* unchanged.  No request changes a stock or another order.
C12_RequestGuard ==
  [][\A o \in OrderIds : \A t \in RRTypes : \A rm \in ReqMaps :
       (vars' # vars /\ requestReturnOrReplacement(o, t, rm))
       => LET order == orders[o]
              okay == /\ order.status = "DELIVERED"
                      /\ order.returnRequest.status = "NONE"
                      /\ \A p \in Products : rm[p] > 0 =>
                           \E i \in 1..Len(order.items) :
                              /\ order.items[i].productId = p
                              /\ rm[p] <= order.items[i].qty
                                            - order.items[i].cancelledQty
                                            - order.items[i].returnedQty
                                            - order.items[i].replacedQty
                      /\ t = "REPLACEMENT" => ~order.isReplacement
          IN /\ stock' = stock
             /\ IF okay
                  THEN orders' = [orders EXCEPT ![o].returnRequest =
                                    [type |-> t, status |-> "REQUESTED", items |-> rm]]
                  ELSE orders' = orders]_vars

\* a RETURN of one of the two units of a delivered line is on file
C12_Witness ==
  \E o \in OrderIds :
    /\ orders[o].status = "DELIVERED"
    /\ orders[o].returnRequest.status = "REQUESTED"
    /\ orders[o].returnRequest.type = "RETURN"
    /\ \E i \in 1..Len(orders[o].items) :
          /\ orders[o].items[i].qty = 2
          /\ orders[o].returnRequest.items[orders[o].items[i].productId] = 1

\* C13 - Every change of an order's returnRequest.status is one of
\* NONE -> REQUESTED (request), REQUESTED -> APPROVED or REJECTED (decision),
\* REQUESTED -> NONE (withdrawal) and APPROVED -> COMPLETED (completion).  A
\* decision on a request that is not REQUESTED, a completion of a request that
\* is not APPROVED and a withdrawal of an APPROVED, REJECTED or COMPLETED
\* request leave the order unchanged.
C13_RequestLifecycle ==
  [][\A o \in OrderIds :
       LET old == orders[o].returnRequest.status
           new == orders'[o].returnRequest.status
       IN /\ old # new =>
               \/ /\ old = "NONE" /\ new = "REQUESTED"
                  /\ \E t \in RRTypes : \E rm \in ReqMaps :
                        requestReturnOrReplacement(o, t, rm)
               \/ /\ old = "REQUESTED" /\ new \in {"APPROVED", "REJECTED"}
                  /\ \E a \in {"APPROVE", "REJECT"} : adminDecideReturnOrReplacement(o, a)
               \/ /\ old = "REQUESTED" /\ new = "NONE"
                  /\ cancelReturnOrReplacementRequest(o)
               \/ /\ old = "APPROVED" /\ new = "COMPLETED"
                  /\ adminCompleteReturnOrReplacement(o)
          /\ (old # "REQUESTED"
                /\ \E a \in {"APPROVE", "REJECT"} : adminDecideReturnOrReplacement(o, a))
               => orders'[o] = orders[o]
          /\ (old # "APPROVED" /\ adminCompleteReturnOrReplacement(o))
               => orders'[o] = orders[o]
          /\ (old \in {"APPROVED", "REJECTED", "COMPLETED"}
                /\ cancelReturnOrReplacementRequest(o))
               => orders'[o] = orders[o]]_vars

\* a request was rejected on one order and another was completed
C13_Witness ==
  /\ \E o \in OrderIds : orders[o].returnRequest.status = "REJECTED"
  /\ \E o \in OrderIds : orders[o].returnRequest.status = "COMPLETED"

\* the quantity of product p that the order's returnRequest names
rrQty(order, p) == order.returnRequest.items[p]

\* units of product s in the quantities that the order's returnRequest names
rrUnits(order, s) ==
  SumSeq([k \in 1..Len(ProductOrder) |->
            rrQty(order, ProductOrder[k]) * unitsOf(ProductOrder[k], s)])

\* every requested quantity names a line whose eligible quantity
\* qty - cancelledQty - returnedQty - replacedQty covers it
rrEligible(order) ==
  \A p \in Products : rrQty(order, p) > 0 =>
    \E i \in 1..Len(order.items) :
       /\ order.items[i].productId = p
       /\ rrQty(order, p) <= order.items[i].qty - order.items[i].cancelledQty
                               - order.items[i].returnedQty - order.items[i].replacedQty

C15_ReturnRefund ==
  [][\A o \in OrderIds :
       ( /\ vars' # vars
         /\ orders[o].returnRequest.type = "RETURN"
         /\ adminCompleteReturnOrReplacement(o) )
       => LET order == orders[o]
              new == orders'[o]
              full == new.status = "RETURNED"
              par == order.parentOrderId
          IN /\ Len(orders') = Len(orders)
             /\ ~full => \A x \in OrderIds : orders'[x].payment = orders[x].payment
             /\ (full /\ ~order.isReplacement) =>
                  /\ order.payment.status = "PAID" => new.payment.status = "REFUNDED"
                  /\ order.payment.status # "PAID" => new.payment = order.payment
                  /\ \A x \in OrderIds \ {o} : orders'[x].payment = orders[x].payment
             /\ (full /\ order.isReplacement) =>
                  /\ new.payment = order.payment
                  /\ par \in OrderIds \ {o}
                  /\ orders'[par].payment.status =
                       IF orders[par].payment.status = "PAID"
                         THEN "REFUNDED" ELSE orders[par].payment.status
                  /\ \A x \in OrderIds \ {o, par} : orders'[x].payment = orders[x].payment]_vars

\* a replacement order was returned in full: it keeps its own payment and its
\* parent is refunded
C15_Witness ==
  \E o \in OrderIds :
    /\ orders[o].isReplacement
    /\ orders[o].status = "RETURNED"
    /\ orders[o].payment = [method |-> "REPLACEMENT", status |-> "PAID"]
    /\ orders[orders[o].parentOrderId].payment.status = "REFUNDED"
    /\ orders[orders[o].parentOrderId].status \in {"REPLACED", "DELIVERED"}

replacementsOf(o) == {n \in OrderIds : orders[n].isReplacement /\ orders[n].parentOrderId = o}

\* C17 - At most one replacement order exists per parent order in every
\* reachable state, also after two adminCompleteReturnOrReplacement calls on
\* the same approved REPLACEMENT request have run concurrently; the parent's
\* replacementOrderId names that order.  A call whose transaction finds
\* replacementOrderId already set ends without changing a stock or creating
\* an order.
C17_OneReplacement ==
  /\ [](\A o \in OrderIds :
          /\ Cardinality(replacementsOf(o)) <= 1
          /\ replacementsOf(o) # {} => replacementsOf(o) = {orders[o].replacementOrderId})
  /\ [][\A i \in Procs :
          (rrBegin(i) /\ orders[rr[i].o].replacementOrderId # 0)
            => /\ stock' = stock /\ orders' = orders
               /\ pc'[i] = "idle"]_vars

\* a completion call that passed its guards on the approved request finds,
\* once its transaction starts, that another call has created the replacement
C17_Witness ==
  \E i \in Procs :
    /\ pc[i] = "rrGuarded"
    /\ orders[rr[i].o].replacementOrderId # 0
    /\ orders[rr[i].o].returnRequest.status = "COMPLETED"
    /\ Cardinality(replacementsOf(rr[i].o)) = 1

\* C18 - No order with isReplacement has a returnRequest of type REPLACEMENT
\* or a replacementOrderId, and no order's parent is itself a replacement
\* order (replacements are never chained).  Exactly the replacement orders
\* have a parent.
C18_NoChain ==
  \A o \in OrderIds :
    /\ orders[o].isReplacement =>
         /\ orders[o].returnRequest.type # "REPLACEMENT"
         /\ orders[o].replacementOrderId = 0
    /\ orders[o].isReplacement <=> orders[o].parentOrderId # 0
    /\ orders[o].parentOrderId # 0 =>
         /\ orders[o].parentOrderId \in OrderIds
         /\ ~orders[orders[o].parentOrderId].isReplacement

\* a delivered replacement order went through a RETURN and is RETURNED
C18_Witness ==
  \E o \in OrderIds :
    /\ orders[o].isReplacement
    /\ orders[o].returnRequest.type = "RETURN"
    /\ orders[o].returnRequest.status = "COMPLETED"
    /\ orders[o].status = "RETURNED"
    /\ orders[o].replacementOrderId = 0

\* C19 - Whenever a replacement order goes from PLACED or CONFIRMED to
\* CANCELLED by cancelOrder, by adminUpdateStatus(CANCELLED) or by a
\* cancelItems call that cancels every remaining unit, and its parent's
\* payment is PAID, the parent's payment becomes REFUNDED in that step.
C19_ReplacementCancelRefund ==
  [][\A o \in OrderIds :
       ( /\ orders[o].isReplacement
         /\ orders[o].status \in {"PLACED", "CONFIRMED"}
         /\ orders'[o].status = "CANCELLED"
         /\ orders[o].parentOrderId \in OrderIds
         /\ orders[orders[o].parentOrderId].payment.status = "PAID"
         /\ \/ cancelOrder(o)
            \/ adminUpdateStatus(o, "CANCELLED")
            \/ \E rm \in ReqMaps : cancelItems(o, rm) )
       => orders'[orders[o].parentOrderId].payment.status = "REFUNDED"]_vars

\* units of product s in the eligible quantities
\* qty - cancelledQty - returnedQty - replacedQty of the lines
eligibleUnits(items, s) ==
  SumSeq([i \in 1..Len(items) |->
            (items[i].qty - items[i].cancelledQty - items[i].returnedQty
               - items[i].replacedQty) * unitsOf(items[i].productId, s)])

\* C20 - On both payment failure paths (verifyRazorpayPayment with a signature
\* that does not match, cancelRazorpayAttempt) the step that changes the order
\* sets payment status FAILED, sets status CANCELLED if and only if the order
\* was not already CANCELLED, RETURNED or REPLACED (a terminal order keeps its
\* status), gives back to the stock exactly the eligible quantity of every
\* line, and sets totalAmount to the sum of (qty - cancelledQty) x unit price.
C20_PaymentFailure ==
  [][\A o \in OrderIds :
       ( /\ vars' # vars
         /\ verifyRazorpayPayment(o, TRUE, FALSE) \/ cancelRazorpayAttempt(o) )
       => /\ orders'[o].payment.status = "FAILED"
          /\ orders'[o].status = IF orders[o].status \in Terminal
                                   THEN orders[o].status ELSE "CANCELLED"
          /\ \A s \in Singles :
                stock'[s] = stock[s] + eligibleUnits(orders[o].items, s)
          /\ orders'[o].totalAmount = lineSum(orders'[o].items)]_vars

\* C21 - verifyRazorpayPayment with a valid confirmation (matching order id
\* and signature) changes something only on an order that is not CANCELLED
\* and whose payment is not PAID (a CANCELLED order is rejected, a PAID one
\* answered with success, both with no change).  It then sets payment status
\* PAID and moves the status from PLACED to CONFIRMED, keeping any other
\* status; it changes no stock, no sold-count, no line, no total and no other
\* order.
C21_PaymentConfirmed ==
  [][\A o \in OrderIds :
       (vars' # vars /\ verifyRazorpayPayment(o, TRUE, TRUE))
       => LET order == orders[o]
              new == orders'[o]
          IN /\ order.status # "CANCELLED"
             /\ order.payment.status # "PAID"
             /\ new.payment = [order.payment EXCEPT !.status = "PAID"]
             /\ new.status = IF order.status = "PLACED" THEN "CONFIRMED" ELSE order.status
             /\ new.items = order.items
             /\ new.totalAmount = order.totalAmount
             /\ new.returnRequest = order.returnRequest
             /\ stock' = stock /\ soldCount' = soldCount
             /\ Len(orders') = Len(orders)
             /\ \A x \in OrderIds \ {o} : orders'[x] = orders[x]]_vars

\* a shipped order was paid through the payment provider: its status is kept
C21_Witness ==
  \E o \in OrderIds :
    /\ orders[o].payment = [method |-> "RAZORPAY", status |-> "PAID"]
    /\ orders[o].razorpayOrderId
    /\ orders[o].status = "SHIPPED"
    /\ ~orders[o].salesCounted

\* the quantity qty - cancelledQty - returnedQty - replacedQty of the lines of
\* product p
activeUnits(items, p) ==
  SumSeq([i \in 1..Len(items) |->
            IF items[i].productId = p
              THEN items[i].qty - items[i].cancelledQty - items[i].returnedQty
                     - items[i].replacedQty
              ELSE 0])

\* C22 - When adminUpdateStatus moves an order to DELIVERED and its payment is
\* PAID after the step (a COD order becomes PAID in that step) and its sales
\* were not counted before, the sold-count of each line's product grows by
\* exactly the line's active quantity qty - cancelledQty - returnedQty -
\* replacedQty and salesCounted becomes true.  A move to DELIVERED that leaves
\* the payment not PAID changes no sold-count and leaves salesCounted false.
C22_SalesCounted ==
  [][\A o \in OrderIds :
       (vars' # vars /\ adminUpdateStatus(o, "DELIVERED"))
       => LET order == orders[o]
              new == orders'[o]
          IN /\ new.status = "DELIVERED"
             /\ (new.payment.status = "PAID") <=>
                  (order.payment.status = "PAID" \/ order.payment.method = "COD")
             /\ IF new.payment.status = "PAID" /\ ~order.salesCounted
                  THEN /\ new.salesCounted
                       /\ \A p \in Products :
                             soldCount'[p] = soldCount[p] + activeUnits(order.items, p)
                  ELSE /\ soldCount' = soldCount
                       /\ new.salesCounted = order.salesCounted
             /\ new.payment.status # "PAID" => ~new.salesCounted]_vars

\* an order of two units, one of them cancelled, was delivered and paid: one
\* unit was counted
C22_Witness ==
  \E o \in OrderIds :
    /\ orders[o].status = "DELIVERED" /\ orders[o].payment.status = "PAID"
    /\ orders[o].salesCounted
    /\ Len(orders[o].items) = 1
    /\ orders[o].items[1].qty = 2 /\ orders[o].items[1].cancelledQty = 1
    /\ soldCount[orders[o].items[1].productId] = 1

\* C23 - A completed RETURN on an order whose sales were counted lowers the
\* sold-count of each returned product by exactly the quantity returned in
\* that completion, never below 0, and adds that quantity to the product's
\* entry of the order's salesRolledBack ledger; on an order whose sales were
\* not counted it changes no sold-count and no ledger entry.
C23_SalesRollback ==
  [][\A o \in OrderIds :
       ( /\ vars' # vars
         /\ orders[o].returnRequest.type = "RETURN"
         /\ adminCompleteReturnOrReplacement(o) )
       => LET order == orders[o]
              new == orders'[o]
          IN IF order.salesCounted
               THEN \A p \in Products :
                      /\ soldCount'[p] = IF soldCount[p] - rrQty(order, p) < 0 THEN 0
                                         ELSE soldCount[p] - rrQty(order, p)
                      /\ new.salesRolledBack[p] = order.salesRolledBack[p] + rrQty(order, p)
               ELSE /\ soldCount' = soldCount
                    /\ new.salesRolledBack = order.salesRolledBack]_vars

\* one of two counted units was returned: the sold-count went from 2 to 1, the
\* order stays DELIVERED and the ledger holds the unit
C23_Witness ==
  \E o \in OrderIds :
    /\ orders[o].salesCounted /\ orders[o].status = "DELIVERED"
    /\ orders[o].returnRequest.status = "COMPLETED"
    /\ Len(orders[o].items) = 1
    /\ orders[o].items[1].qty = 2 /\ orders[o].items[1].returnedQty = 1
    /\ orders[o].salesRolledBack[orders[o].items[1].productId] = 1
    /\ soldCount[orders[o].items[1].productId] = 1
    /\ soldAdded[o][orders[o].items[1].productId] = 2

\* every line of the cart can be served: positive quantity, a product that
\* exists and is active (a bundle: with active children), and the stock of
\* every SINGLE product covers the units the whole cart takes from it
cartServable(cart) ==
  /\ \A i \in 1..Len(cart) :
        /\ cart[i].qty > 0
        /\ cart[i].productId \in Products
        /\ isActive[cart[i].productId]
        /\ \A s \in Singles : unitsOf(cart[i].productId, s) > 0 => isActive[s]
  /\ \A s \in Singles :
        SumSeq([i \in 1..Len(cart) |-> cart[i].qty * unitsOf(cart[i].productId, s)])
          <= stock[s]

\* C24 - createOrder is all-or-nothing.  A call changes something only if
\* every line can be served (so a call that fails on any line - product not
\* found, product inactive, quantity <= 0, stock too low at the conditional
\* decrement - leaves every stock, also of earlier lines and of bundle
\* children already deducted, and the orders as they were).  A call that
\* changes something creates exactly one order, in status PLACED, with one
\* line per cart item carrying its product and quantity, and lowers the stock
\* of every product by the units ordered (a bundle: of each child by the
\* units per bundle).
C24_CreateAllOrNothing ==
  [][\A cart \in CartsAll : \A m \in Methods :
       (vars' # vars /\ createOrder(cart, m))
       => /\ cartServable(cart)
          /\ Len(orders') = Len(orders) + 1
          /\ \A x \in OrderIds : orders'[x] = orders[x]
          /\ LET new == orders'[Len(orders) + 1]
             IN /\ new.status = "PLACED"
                /\ Len(new.items) = Len(cart)
                /\ \A i \in 1..Len(cart) :
                      /\ new.items[i].productId = cart[i].productId
                      /\ new.items[i].qty = cart[i].qty
                      /\ new.items[i].cancelledQty = 0
          /\ \A s \in Singles :
                stock'[s] = stock[s]
                  - SumSeq([i \in 1..Len(cart) |->
                              cart[i].qty * unitsOf(cart[i].productId, s)])
          /\ stock'["K"] = stock["K"]]_vars

\* an order of one unit of A and one bundle K was placed from full stock: A
\* and B are used up
C24_Witness ==
  /\ Len(orders) = 1
  /\ orders[1].status = "PLACED"
  /\ Len(orders[1].items) = 2
  /\ orders[1].items[1].productId = "A" /\ orders[1].items[1].qty = 1
  /\ orders[1].items[2].productId = "K" /\ orders[1].items[2].qty = 1
  /\ stock["A"] = 0 /\ stock["B"] = 0

\* a child that makes the bundle unavailable: missing, a bundle itself,
\* inactive, or with a quantity per bundle <= 0
badChild(bi) ==
  \/ bi.product \notin Singles
  \/ ~isActive[bi.product]
  \/ bi.qty <= 0

\* the minimum over the children of floor(child.stock / perBundleQty), or 0
expectedBundleStock(items) ==
  IF Len(items) < 2 \/ \E k \in 1..Len(items) : badChild(items[k]) THEN 0
  ELSE LET perChild == {stock[items[k].product] \div items[k].qty : k \in 1..Len(items)}
       IN CHOOSE m \in perChild : \A x \in perChild : m <= x

\* C25 - getAvailableStock of a BUNDLE is the minimum over its (child,
\* perBundleQty) pairs of floor(child.stock / perBundleQty), and 0 whenever a
\* child is missing, inactive or itself a bundle, a perBundleQty is <= 0, or
\* the bundle has fewer than two children.  Reserving n <= that value
\* succeeds and lowers the stock of each child by exactly perBundleQty x n,
\* and the stock of no other product.
C25_BundleStock ==
  /\ []((probe.available # NULL /\ probe.n = 0)
          => probe.available = expectedBundleStock(probe.items))
  /\ [][\A n \in 1..MaxReserve :
          (reserveBundle(n) /\ n <= probe.available)
            => /\ probe'.ok
               /\ \A c \in Products :
                    stock'[c] = stock[c]
                      - SumSeq([k \in 1..Len(probe.items) |->
                                  IF probe.items[k].product = c
                                    THEN probe.items[k].qty * n ELSE 0])]_vars

\* children with stock 4 and 10 at 1 and 2 per bundle gave 4, and reserving 4
\* left 0 and 2
C25_Witness ==
  /\ probe.items = << [product |-> "A", qty |-> 1], [product |-> "B", qty |-> 2] >>
  /\ probe.available = 4 /\ probe.n = 4 /\ probe.ok
  /\ stock["A"] = 0 /\ stock["B"] = 2

\* C26 - the cancellation paths are all-or-nothing: a cancelItems, cancelOrder
\* or adminUpdateStatus(CANCELLED) call that ends in an error (the order is
\* not saved: no field of any order differs from before the call) leaves
\* every stock as it was before the call.
C26_CancelAllOrNothing ==
  [][\A o \in 1..MaxOrders :
       /\ \A rm \in ReqMaps : (cancelItems(o, rm) /\ orders' = orders) => stock' = stock
       /\ (cancelOrder(o) /\ orders' = orders) => stock' = stock
       /\ (adminUpdateStatus(o, "CANCELLED") /\ orders' = orders) => stock' = stock]_vars

\* units of SINGLE product p that the lines of the orders still hold:
\* qty - cancelledQty - returnedQty, a bundle line counting perBundleQty
\* units of each child per bundle
heldUnits(p) ==
  SumSeq([o \in 1..Len(orders) |->
            SumSeq([i \in 1..Len(orders[o].items) |->
                      LET line == orders[o].items[i]
                      IN (line.qty - line.cancelledQty - line.returnedQty)
                           * unitsOf(line.productId, p)])])

\* C27 - stock conservation: for every SINGLE product, the stock plus the
\* units still held by order lines (directly or through a bundle) equals the
\* initial stock in every reachable state, and no unit is released twice: no
\* line has given back (cancelled or returned) more units than it ordered.
C27_StockConservation ==
  /\ \A p \in Singles : stock[p] + heldUnits(p) = InitStock
  /\ \A o \in OrderIds : \A i \in 1..Len(orders[o].items) :
        orders[o].items[i].cancelledQty + orders[o].items[i].returnedQty
          <= orders[o].items[i].qty
\* process i serves a cancelling request that has not ended in an error
cancelling(i) ==
  /\ pc[i] \in {"lines", "save", "done"}
  /\ \/ call[i].kind \in {"cancelOrder", "cancelItems"}
     \/ call[i].kind = "adminUpdateStatus" /\ call[i].status = "CANCELLED"

\* C28 - two cancelling requests (cancelOrder, cancelItems,
\* adminUpdateStatus(CANCELLED)) on the same PLACED or CONFIRMED order, each
\* of which loaded the order before the other saved it (both work on the same
\* loaded document), release together at most the units its lines held when
\* it was loaded: qty - cancelledQty per line.
C28_ConcurrentCancel ==
  \A i, j \in Procs :
    (/\ i # j
     /\ cancelling(i) /\ cancelling(j)
     /\ call[i].o = call[j].o
     /\ call[i].loaded = call[j].loaded)
    => \A p \in Singles :
         call[i].released[p] + call[j].released[p] <= released(call[i].loaded.items, p)

\* units of p ordered by the lines of all orders
orderedUnits(p) ==
  SumSeq([o \in 1..Len(orders) |->
            SumSeq([k \in 1..Len(orders[o].items) |->
                      IF orders[o].items[k].productId = p
                        THEN orders[o].items[k].qty ELSE 0])])

\* C30 - the sold count is increased at most once per order, also when two
\* adminUpdateStatus(DELIVERED) requests on the same paid order both load it
\* with salesCounted = false, or when a save fails after the soldCount
\* bulkWrite: the soldCount of a product never exceeds the units of it that
\* the orders ordered.
C30_SoldCountOnce ==
  \A p \in Products : soldCount[p] <= orderedUnits(p)
\* C29 - of two adminCompleteReturnOrReplacement calls for the same RETURN
\* request that both passed the APPROVED check on their first read and then
\* run their transactions one after the other, only the first changes
\* anything: a transaction that starts when the request is no longer APPROVED
\* (the other call has completed it) changes no returnedQty and no stock.
C29_ReturnOnce ==
  [][\A i \in Procs :
       (retTxn(i) /\ orders[rr[i].o].returnRequest.status # "APPROVED")
         => /\ stock' = stock
            /\ \A k \in 1..Len(orders[rr[i].o].items) :
                  orders'[rr[i].o].items[k].returnedQty
                    = orders[rr[i].o].items[k].returnedQty]_vars

\* C31 - refund permanence: once the payment status of an order is REFUNDED,
\* no later operation changes the payment status of that order.
C31_RefundPermanent ==
  [][\A o \in OrderIds :
       orders[o].payment.status = "REFUNDED"
         => orders'[o].payment.status = "REFUNDED"]_vars

\* C32 - payment provenance: an order that is not a replacement order starts
\* with payment status PENDING whatever paymentMethod was supplied (only
\* replacement orders start as PAID), and its payment status becomes PAID
\* only in a verified payment confirmation or in the delivery of a COD order.
C32_PaymentProvenance ==
  [][/\ \A o \in 1..Len(orders') :
          (o > Len(orders) /\ ~orders'[o].isReplacement)
            => orders'[o].payment.status = "PENDING"
     /\ \A o \in OrderIds :
          (/\ ~orders[o].isReplacement
           /\ orders[o].payment.status # "PAID"
           /\ orders'[o].payment.status = "PAID")
            => \/ verifyRazorpayPayment(o, TRUE, TRUE)
               \/ orders[o].payment.method = "COD" /\ adminUpdateStatus(o, "DELIVERED")]_vars

\* the returned and replaced quantities of the lines of an order
rrQuantities(order) ==
  [i \in 1..Len(order.items) |->
     <<order.items[i].returnedQty, order.items[i].replacedQty>>]

\* C33 - one request cycle per order: once the returnRequest status of an
\* order is REJECTED or COMPLETED, the request never changes again (no new
\* request is accepted) and neither does any returnedQty or replacedQty of
\* the order; a step that changes a returnedQty or replacedQty completes an
\* APPROVED request.  So each order completes at most one return or
\* replacement and the quantities change in at most one step.
C33_OneRequestCycle ==
  [][\A o \in OrderIds :
       /\ orders[o].returnRequest.status \in {"REJECTED", "COMPLETED"}
            => /\ orders'[o].returnRequest = orders[o].returnRequest
               /\ rrQuantities(orders'[o]) = rrQuantities(orders[o])
       /\ rrQuantities(orders'[o]) # rrQuantities(orders[o])
            => /\ orders[o].returnRequest.status = "APPROVED"
               /\ orders'[o].returnRequest.status = "COMPLETED"]_vars

\* a return of one of two units was completed: the order is still DELIVERED
\* and holds an eligible unit, and its request is COMPLETED
C33_Witness ==
  \E o \in OrderIds :
    /\ orders[o].status = "DELIVERED"
    /\ orders[o].returnRequest.status = "COMPLETED"
    /\ \E i \in 1..Len(orders[o].items) :
         /\ orders[o].items[i].returnedQty = 1
         /\ getEligibleQtyForRR(orders[o].items[i]) = 1

\* h is a prefix of g
isPrefix(h, g) == Len(h) <= Len(g) /\ \A k \in 1..Len(h) : g[k] = h[k]

\* C34 - history is append-only: in every step the statusHistory of every
\* order before the step is a prefix of its statusHistory after it, and every
\* step that changes the status, the return-request status or the payment
\* status of an order appends at least one entry to the history of that order.
C34_HistoryAppendOnly ==
  [][\A o \in 1..MaxOrders :
       /\ isPrefix(history[o], history'[o])
       /\ (/\ o \in OrderIds
           /\ \/ orders'[o].status # orders[o].status
              \/ orders'[o].returnRequest.status # orders[o].returnRequest.status
              \/ orders'[o].payment.status # orders[o].payment.status)
            => Len(history'[o]) > Len(history[o])]_vars

\* a replaced order was refunded when its replacement order was cancelled:
\* the refund is the last entry of the parent's history
C34_Witness ==
  \E o \in OrderIds :
    /\ orders[o].replacementOrderId # 0
    /\ orders[o].payment.status = "REFUNDED"
    /\ Len(history[o]) >= 2
    /\ history[o][1] = "PLACED"
    /\ history[o][Len(history[o])] = "REFUNDED"
C36_RoundTrip ==
  /\ []((probe.released /\ probe.ok) => stock = probe.before)
  /\ [][releaseProbe => \A p \in Products : stock'[p] >= stock[p]]_vars

\* two bundles of one A and two B were reserved from stocks 4 and 10 and
\* released again: the stocks are 4 and 10
C36_Witness ==
  /\ probe.items = << [product |-> "A", qty |-> 1], [product |-> "B", qty |-> 2] >>
  /\ probe.n = 2 /\ probe.ok /\ probe.released
  /\ probe.before["A"] = 4 /\ probe.before["B"] = 10
  /\ stock["A"] = 4 /\ stock["B"] = 10

\* C37 - Linkage consistency: in every reachable state an order R has
\* isReplacement = true and parentOrderId = P if and only if order P has
\* replacementOrderId = R.  Both links are written in one step, the step
\* that creates R, and no later step changes or clears a link, also when
\* the replacement order is cancelled or returned afterwards.
C37_Linkage ==
  /\ [](\A R \in OrderIds, P \in OrderIds :
          (orders[R].isReplacement /\ orders[R].parentOrderId = P)
            <=> orders[P].replacementOrderId = R)
  /\ [](\A R \in OrderIds :
          /\ orders[R].isReplacement => orders[R].parentOrderId \in OrderIds
          /\ orders[R].replacementOrderId # 0 => orders[R].replacementOrderId \in OrderIds)
  /\ [][\A o \in OrderIds :
          /\ orders'[o].isReplacement = orders[o].isReplacement
          /\ orders'[o].parentOrderId = orders[o].parentOrderId
          /\ \/ orders'[o].replacementOrderId = orders[o].replacementOrderId
             \/ LET n == Len(orders) + 1
                IN /\ orders[o].replacementOrderId = 0
                   /\ orders'[o].replacementOrderId = n
                   /\ Len(orders') = n
                   /\ orders'[n].isReplacement
                   /\ orders'[n].parentOrderId = o]_vars

\* a replacement order was cancelled: it still names its parent and the
\* parent still names it
C37_Witness ==
  \E R \in OrderIds, P \in OrderIds :
    /\ orders[R].isReplacement /\ orders[R].parentOrderId = P
    /\ orders[P].replacementOrderId = R
    /\ orders[R].status = "CANCELLED"

\* C38 - A completed return that leaves no eligible quantity on any line of
\* the order (cancelledQty + returnedQty + replacedQty = qty on every line)
\* makes the order RETURNED and, for a non-replacement order whose payment
\* was PAID, its payment REFUNDED.
C38_ReturnedWhenNothingLeft ==
  [][\A o \in OrderIds :
       ( /\ vars' # vars
         /\ orders[o].returnRequest.type = "RETURN"
         /\ adminCompleteReturnOrReplacement(o)
         /\ \A i \in 1..Len(orders'[o].items) :
               getEligibleQtyForRR(orders'[o].items[i]) = 0 )
       => /\ orders'[o].status = "RETURNED"
          /\ (~orders[o].isReplacement /\ orders[o].payment.status = "PAID")
                => orders'[o].payment.status = "REFUNDED"]_vars


\* C39 - the createOrder of src/src/controllers/order.controller.js never
\* oversells: once the concurrent calls on a product with initial stock
\* InitStock have ended, the quantities of the calls that succeeded sum to at
\* most InitStock and the stored stock is InitStock minus that sum.
C39_LegacyNoOversell ==
  (\A i \in Procs : pc[i] = "idle")
    => \A p \in Singles :
         /\ orderedUnits(p) <= InitStock
         /\ stock[p] = InitStock - orderedUnits(p)


\* C40 - computeBundleMaxQty returns, for every populated bundle (any number
\* of children, any child active flag or type, any per-bundle quantity and
\* stock in the range drawn), the value getAvailableStock returns for it.
C40_SameBundleStock ==
  probe.available # NULL => probe.maxQty = probe.available

====
